---- MODULE Spec2Model ----
(***************************************************************************)
(* ProView-AI: the session-isolated RAG store (app/rag_storage.py), the    *)
(* in-memory rate limiter (main.py) and the response generator             *)
(* (app/services.py, app/schemas.py) as state machines.                    *)
(*                                                                         *)
(* A string the code inspects (strip(), a regular expression, truthiness)  *)
(* is a sequence of pieces: a piece is one character, or a run of text     *)
(* that begins and ends with a character that is not white space. An       *)
(* Optional value is <<>> for None and <<v>> for the value v.              *)
(***************************************************************************)
EXTENDS Integers, Sequences, FiniteSets, TLC

(***************************************************************************)
(* Program constants                                                       *)
(***************************************************************************)
SESSION_TIMEOUT_HOURS == 2
MAX_FILE_SIZE_MB == 10
ALLOWED_EXTENSIONS == {".pdf", ".docx", ".txt"}
RATE_LIMIT_REQUESTS == 10
RATE_LIMIT_WINDOW_SECONDS == 60
SecondsPerHour == 3600
DefaultK == 3
MaxK == 10

(***************************************************************************)
(* Bounds of the model                                                     *)
(***************************************************************************)
\* chunk ids ever handed out by the store
MaxIds == 2
\* turns in the history of a chat request
MaxTurns == 5
\* calls of get_vector_db in one process
MaxCalls == 4

(***************************************************************************)
(* Strings                                                                 *)
(***************************************************************************)
Rep(c, n) == [i \in 1..n |-> c]

IsSpace(c) == c \in {" ", "\n", "\t"}

RECURSIVE LStrip(_)
LStrip(s) == IF s = <<>> THEN s
             ELSE IF IsSpace(Head(s)) THEN LStrip(Tail(s)) ELSE s

RECURSIVE RStrip(_)
RStrip(s) == IF s = <<>> THEN s
             ELSE IF IsSpace(s[Len(s)]) THEN RStrip(SubSeq(s, 1, Len(s) - 1)) ELSE s

\* str.strip()
Strip(s) == RStrip(LStrip(s))

\* "not s or not s.strip()"
Blank(s) == s = <<>> \/ Strip(s) = <<>>

None == <<>>
Some(v) == <<v>>

(***************************************************************************)
(* Inputs                                                                  *)
(***************************************************************************)
SessA == Rep("a", 8)
SessB == Rep("b", 8)
SessBlank == Rep(" ", 8)
Sessions == {SessA, SessB, SessBlank}
UsualSessions == {SessA, SessB}

\* Path(...).name
Basename(path) == path[Len(path)]

\* An uploaded file as process_file finds it on disk: its path, whether it
\* exists and is a regular file, its size, and what the loader extracts.
Files ==
  { [path |-> <<"temp_uploads", "resume.txt">>, exists |-> TRUE, is_file |-> TRUE,
     size_mb |-> 1, suffix |-> ".txt", units |-> 1],
    [path |-> <<"temp_uploads", "jd.PDF">>, exists |-> TRUE, is_file |-> TRUE,
     size_mb |-> 2, suffix |-> ".PDF", units |-> 2],
    [path |-> <<"temp_uploads", "empty.docx">>, exists |-> TRUE, is_file |-> TRUE,
     size_mb |-> 0, suffix |-> ".docx", units |-> 0],
    [path |-> <<"temp_uploads", "notes.md">>, exists |-> TRUE, is_file |-> TRUE,
     size_mb |-> 1, suffix |-> ".md", units |-> 1],
    [path |-> <<"temp_uploads", "big.txt">>, exists |-> TRUE, is_file |-> TRUE,
     size_mb |-> 11, suffix |-> ".txt", units |-> 1],
    [path |-> <<"temp_uploads", "gone.txt">>, exists |-> FALSE, is_file |-> FALSE,
     size_mb |-> 0, suffix |-> ".txt", units |-> 0] }

\* Files the loader reads, and one it refuses
GoodFiles == {f \in Files : Basename(f.path) \in {"resume.txt", "jd.PDF"}}
SomeFiles == {f \in Files : Basename(f.path) \in {"resume.txt", "notes.md"}}
BadPathFiles == {f \in Files : Basename(f.path) \in {"gone.txt", "big.txt"}}
OneFile == {f \in Files : Basename(f.path) = "resume.txt"}

Queries == { <<>>, <<" ">>, <<"g", "o">> }
UsualQueries == { <<" ">>, <<"g", "o">> }
Ks == {0, 1, DefaultK, MaxK + 1}
UsualKs == {1, DefaultK}

\* janitor_cleanup's hours argument: None (the default) or a number of hours
HourArgs == {None, Some(1)}

\* time.time(), in whole seconds. FineClock: readings one second either side
\* of each threshold; CoarseClock: one reading before and one after the
\* default timeout.
FineClock == {0, 1, 2, 7200, 7201}
CoarseClock == {0, 7201}

\* Client keys of the rate limiter (get_client_ip)
Clients == {"10.0.0.1", "10.0.0.2"}
OneClient == {"10.0.0.1"}

\* time.time() as check_rate_limit reads it: readings either side of the end
\* of the window that starts at 0 and at 1
RateClock == {0, 1, 59, 60, 61, 120}

VARIABLES
  store,             \* the Chroma collection: a set of chunks
  clock,             \* the last reading of time.time()
  next_id,           \* ids handed out so far
  last,              \* the call that just returned
  prev,              \* the call before it
  rate_limit_store,  \* main.py's rate_limit_store: client key -> request times
  rate_last,         \* the check_rate_limit call that just returned
  rate_hist,         \* history: per client, the time of every accepted request
                     \* and the time of the last rejected one (-1: none)
  reply_call,        \* the get_proview_response or validate_response call that
                     \* just returned
  http_last,         \* the HTTP exchange that just ended: request and response
  temp_files,        \* the files in the temporary upload directory
  vector_db_instance,   \* rag_storage._vector_db_instance
  embeddings_instance,  \* rag_storage._embeddings_instance
  threads,           \* per thread: where it is in get_vector_db, what it holds
  constructed,       \* history: constructions, calls and background tasks
  handed_out,        \* history: the instances get_vector_db has returned
  split,             \* the text unit last split and the chunks made of it
  rl_threads,        \* per thread: where it is in check_rate_limit, its locals
  db_threads         \* per thread: where it is in a deletion or an ingestion, its locals

store_vars == <<store, next_id, last, prev>>
rate_vars == <<rate_limit_store, rate_last, rate_hist>>
reply_vars == <<reply_call>>
http_vars == <<http_last, temp_files>>
singleton_vars ==
  <<vector_db_instance, embeddings_instance, threads, constructed, handed_out>>
step_vars == <<split, rl_threads, db_threads>>
vars ==
  <<store, clock, next_id, last, prev, rate_limit_store, rate_last, rate_hist, reply_call,
    http_last, temp_files, vector_db_instance, embeddings_instance, threads, constructed,
    handed_out, split, rl_threads, db_threads>>

(***************************************************************************)
(* The vector store's calls                                                *)
(***************************************************************************)
Min(a, b) == IF a < b THEN a ELSE b

\* vector_db.get(where={"session_id": session_id})
StoreGetWhere(st, session_id) == {c \in st : c.session_id = session_id}

\* Mutant: the search runs without its session filter
SimilarityFilter_unfiltered(st, session_id) == st

\* the filter={"session_id": session_id} of vector_db.similarity_search
SimilarityFilter(st, session_id) == {c \in st : c.session_id = session_id}

\* vector_db.similarity_search(query, k, filter): the k best matches among the
\* filtered chunks; the ranking is the embedding engine's, so any k of them in
\* any order.
SimilaritySearch(st, session_id, k) ==
  LET m == SimilarityFilter(st, session_id)
      n == Min(k, Cardinality(m))
  IN  {d \in [1..n -> m] : \A i, j \in 1..n : d[i] = d[j] => i = j}

\* Mutant: the delete call removes nothing
StoreDelete_noop(st, ids) == st

\* vector_db.delete(ids=...)
StoreDelete(st, ids) == {c \in st : c.id \notin ids}

(***************************************************************************)
(* process_file                                                            *)
(***************************************************************************)
\* Path(...).suffix.lower()
Lower(suffix) == CASE suffix = ".PDF" -> ".pdf"
                   [] suffix = ".TXT" -> ".txt"
                   [] suffix = ".DOCX" -> ".docx"
                   [] OTHER -> suffix

\* validate_file_path: TRUE when it returns, FALSE when it raises ValueError
validate_file_path(f) ==
  /\ f.exists
  /\ f.is_file
  /\ ~(f.size_mb > MAX_FILE_SIZE_MB)

\* Mutant: the chunks carry the path as it was given and no ingestion time
NewChunks_unstamped(f, session_id, current_time, n, first_id) ==
  { [id |-> first_id + i,
     session_id |-> session_id,
     timestamp |-> 0,
     source_file |-> f.path,
     page_content |-> <<Basename(f.path), i>>] : i \in 1..n }

\* The metadata process_file stamps on every extracted unit, carried by every
\* chunk split from it; chunk i of the file gets the next free id.
NewChunks(f, session_id, current_time, n, first_id) ==
  { [id |-> first_id + i,
     session_id |-> session_id,
     timestamp |-> current_time,
     source_file |-> Basename(f.path),
     page_content |-> <<Basename(f.path), i>>] : i \in 1..n }

\* str(e) of the ValueError validate_file_path raises ("" when it returns),
\* without the path and the limit it interpolates
ValidationErrorText(f) ==
  IF ~f.exists THEN "Invalid file path: File does not exist"
  ELSE IF ~f.is_file THEN "Invalid file path: Path is not a file"
  ELSE IF f.size_mb > MAX_FILE_SIZE_MB THEN "Invalid file path: File exceeds maximum size"
  ELSE ""

\* str(e) of what the loader or the store raises
ExternalErrorText(fault) == fault \o " failed"

\* process_file(file_path, session_id). fault: the external call that fails;
\* n_splits: what the splitter makes of the extracted units; current_time:
\* time.time() at line 120. Returns what is raised and its text, the count
\* returned, the store afterwards, the fault that was hit and whether line 120
\* was reached. The store write is one add_documents call, which fails whole.
process_file(st, f, session_id, fault, n_splits, current_time, first_id) ==
  LET fails(raised, detail, hit, stamped) ==
        [raised |-> raised, detail |-> detail, ret |-> 0, store |-> st, fault |-> hit,
         stamped |-> stamped]
  IN
  IF ~validate_file_path(f)
    THEN fails("ValueError", ValidationErrorText(f), "none", FALSE)
  ELSE IF Lower(f.suffix) \notin {".pdf", ".docx", ".txt"}
    THEN fails("ValueError", "Unsupported file type", "none", FALSE)
  ELSE IF fault = "load"
    THEN fails("Exception", "Failed to process file: " \o ExternalErrorText(fault),
               "load", FALSE)
  ELSE IF f.units = 0
    THEN fails("ValueError", "No content could be extracted from the file", "none", FALSE)
  ELSE IF n_splits = 0
    THEN fails("ValueError", "Document splitting produced no chunks", "none", TRUE)
  ELSE IF fault \in {"db", "add"}
    THEN fails("Exception", "Failed to process file: " \o ExternalErrorText(fault),
               fault, TRUE)
  ELSE [raised |-> "none", detail |-> "", ret |-> n_splits,
        store |-> st \cup NewChunks(f, session_id, current_time, n_splits, first_id),
        fault |-> "none", stamped |-> TRUE]

(***************************************************************************)
(* get_retrieved_context                                                   *)
(***************************************************************************)
NoQueryMsg == "No query provided."
\* Mutant: a failed retrieval answers as a session without documents does
RetrievalErrorMsg_nocontext == "No relevant context available. Please upload your resume or job description to get personalized interview questions."

RetrievalErrorMsg == "Error retrieving context. Please try again."

\* Mutant: an empty search result is answered as a failure is
NoContextMsg_error == "Error retrieving context. Please try again."

NoContextMsg == "No relevant context available. Please upload your resume or job description to get personalized interview questions."

\* Mutant: k is moved to the nearest bound of 1..10
EffectiveK_clamped(k) == IF k < 1 THEN 1 ELSE IF k > MaxK THEN MaxK ELSE k

\* "if k < 1 or k > 10: k = 3"
EffectiveK(k) == IF k < 1 \/ k > MaxK THEN DefaultK ELSE k

\* Mutant: the query is never found missing
QueryMissing_never(query) == FALSE

\* "if not query or not query.strip()"
QueryMissing(query) == Blank(query)

\* The numbered, source-attributed blocks joined into the context string
FormatContext(docs) ==
  [i \in 1..Len(docs) |->
     [n |-> i, source |-> docs[i].source_file, content |-> docs[i].page_content]]

\* get_retrieved_context(query, session_id, k). docs: the store's answer to
\* the search, one of SimilaritySearch(st, session_id, EffectiveK(k)). Returns
\* the string returned (msg, with its blocks in ctx), the fault that was hit,
\* whether get_vector_db() was called (db) and the k similarity_search was
\* called with (searched_k, 0 when it was not called). The whole body is in a
\* try whose handler returns, so nothing is raised.
get_retrieved_context(query, session_id, k, fault, docs) ==
  IF QueryMissing(query)
    THEN [msg |-> NoQueryMsg, docs |-> <<>>, ctx |-> <<>>, fault |-> "none",
          db |-> FALSE, searched_k |-> 0, raised |-> "none"]
  ELSE IF fault = "db"
    THEN [msg |-> RetrievalErrorMsg, docs |-> <<>>, ctx |-> <<>>, fault |-> fault,
          db |-> TRUE, searched_k |-> 0, raised |-> "none"]
  ELSE IF fault = "search"
    THEN [msg |-> RetrievalErrorMsg, docs |-> <<>>, ctx |-> <<>>, fault |-> fault,
          db |-> TRUE, searched_k |-> EffectiveK(k), raised |-> "none"]
  ELSE IF docs = <<>>
    THEN [msg |-> NoContextMsg, docs |-> <<>>, ctx |-> <<>>, fault |-> "none",
          db |-> TRUE, searched_k |-> EffectiveK(k), raised |-> "none"]
  ELSE [msg |-> "context", docs |-> docs, ctx |-> FormatContext(docs), fault |-> "none",
        db |-> TRUE, searched_k |-> EffectiveK(k), raised |-> "none"]

(***************************************************************************)
(* clear_session_data                                                      *)
(***************************************************************************)
\* clear_session_data(session_id): the count returned, the store afterwards
\* and the store fault that was hit
clear_session_data(st, session_id, fault) ==
  IF Blank(session_id)
    THEN [ret |-> 0, store |-> st, fault |-> "none"]
  ELSE IF fault \in {"db", "get"}
    THEN [ret |-> 0, store |-> st, fault |-> fault]
  ELSE LET ids_to_delete == {c.id : c \in StoreGetWhere(st, session_id)}
       IN  IF ids_to_delete # {}
             THEN IF fault = "delete"
                    THEN [ret |-> 0, store |-> st, fault |-> "delete"]
                    ELSE [ret |-> Cardinality(ids_to_delete),
                          store |-> StoreDelete(st, ids_to_delete), fault |-> "none"]
             ELSE [ret |-> 0, store |-> st, fault |-> "none"]

(***************************************************************************)
(* janitor_cleanup                                                         *)
(***************************************************************************)
\* "if hours is None: hours = ProViewConfig.SESSION_TIMEOUT_HOURS"
Threshold(hours) == IF hours = None THEN SESSION_TIMEOUT_HOURS ELSE hours[1]

\* cutoff_time = current_time - (hours * 3600)
CutoffTime(current_time, hours) == current_time - Threshold(hours) * SecondsPerHour

\* Mutant: a chunk exactly at the cutoff counts as expired
Expired_inclusive(timestamp, cutoff_time) == timestamp <= cutoff_time

\* "if timestamp < cutoff_time"
Expired(timestamp, cutoff_time) == timestamp < cutoff_time

\* Mutant: a store failure escapes janitor_cleanup (no try/except)
janitor_cleanup_propagates(st, hours, current_time, fault) ==
  LET cutoff_time == CutoffTime(current_time, hours)
      expired == {c \in st : Expired(c.timestamp, cutoff_time)}
  IN  IF fault \in {"db", "get"} \/ (fault = "delete" /\ expired # {})
        THEN [ret |-> 0, store |-> st, raised |-> "Exception", fault |-> fault]
        ELSE [ret |-> Cardinality(expired), store |-> st \ expired, raised |-> "none",
              fault |-> "none"]

\* janitor_cleanup(hours) at clock reading current_time: the count returned,
\* the store afterwards, what is raised and the store fault that was hit
janitor_cleanup(st, hours, current_time, fault) ==
  LET cutoff_time == CutoffTime(current_time, hours)
      ids_to_delete == {c.id : c \in {c \in st : Expired(c.timestamp, cutoff_time)}}
  IN  IF fault \in {"db", "get"}
        THEN [ret |-> 0, store |-> st, raised |-> "none", fault |-> fault]
      ELSE IF st = {}
        THEN [ret |-> 0, store |-> st, raised |-> "none", fault |-> "none"]
      ELSE IF ids_to_delete # {}
        THEN IF fault = "delete"
               THEN [ret |-> 0, store |-> st, raised |-> "none", fault |-> "delete"]
               ELSE [ret |-> Cardinality(ids_to_delete),
                     store |-> StoreDelete(st, ids_to_delete), raised |-> "none",
                     fault |-> "none"]
      ELSE [ret |-> 0, store |-> st, raised |-> "none", fault |-> "none"]

(***************************************************************************)
(* get_session_stats                                                       *)
(***************************************************************************)
get_session_stats(st, session_id, fault) ==
  IF Blank(session_id)
    THEN [error |-> TRUE, document_count |-> 0, has_data |-> FALSE, source_files |-> {},
          fault |-> "none"]
  ELSE IF fault \in {"db", "get"}
    THEN [error |-> TRUE, document_count |-> 0, has_data |-> FALSE, source_files |-> {},
          fault |-> fault]
  ELSE LET results == StoreGetWhere(st, session_id)
           doc_count == Cardinality(results)
       IN  [error |-> FALSE, document_count |-> doc_count, has_data |-> doc_count > 0,
            source_files |-> {c.source_file : c \in results}, fault |-> "none"]

(***************************************************************************)
(* check_rate_limit                                                        *)
(***************************************************************************)
\* Mutant: a request exactly one window old still counts
InWindow_inclusive(req_time, window_start) == req_time >= window_start

\* "if req_time > window_start"
InWindow(req_time, window_start) == req_time > window_start

\* The list comprehension of lines 98-101
RECURSIVE CleanOld(_, _)
CleanOld(times, window_start) ==
  IF times = <<>> THEN <<>>
  ELSE IF InWindow(Head(times), window_start)
         THEN <<Head(times)>> \o CleanOld(Tail(times), window_start)
         ELSE CleanOld(Tail(times), window_start)

\* A check_rate_limit that prunes the list of every client, not only the caller's
check_rate_limit_pruning_all(rls, client_ip, current_time) ==
  LET window_start == current_time - RATE_LIMIT_WINDOW_SECONDS
      cleaned == [c \in DOMAIN rls |-> CleanOld(rls[c], window_start)]
  IN  IF Len(cleaned[client_ip]) >= RATE_LIMIT_REQUESTS
        THEN [ret |-> FALSE, store |-> cleaned]
        ELSE [ret |-> TRUE,
              store |-> [cleaned EXCEPT ![client_ip] = Append(@, current_time)]]

\* check_rate_limit(client_ip) at clock reading current_time: what it returns
\* and rate_limit_store afterwards
check_rate_limit(rls, client_ip, current_time) ==
  LET window_start == current_time - RATE_LIMIT_WINDOW_SECONDS
      cleaned == [rls EXCEPT ![client_ip] = CleanOld(rls[client_ip], window_start)]
  IN  IF Len(cleaned[client_ip]) >= RATE_LIMIT_REQUESTS
        THEN [ret |-> FALSE, store |-> cleaned]
        ELSE [ret |-> TRUE,
              store |-> [cleaned EXCEPT ![client_ip] = Append(@, current_time)]]

NoRateCall == [client |-> "", at |-> 0, ret |-> FALSE, before |-> <<>>, accepted |-> <<>>]

RateInit ==
  /\ rate_limit_store = [c \in Clients |-> <<>>]
  /\ rate_last = NoRateCall
  /\ rate_hist = [c \in Clients |-> [accepted |-> <<>>, rejected_at |-> 0 - 1]]

\* A request reaching check_rate_limit. CS: the client keys drawn; CV: the
\* clock readings drawn.
CheckRateLimit(CS, CV) ==
  \E c \in CS, t \in {t \in CV : t >= clock} :
    LET r == check_rate_limit(rate_limit_store, c, t)
    IN  /\ rate_limit_store' = r.store
        /\ clock' = t
        /\ rate_last' = [client |-> c, at |-> t, ret |-> r.ret,
                         before |-> rate_limit_store[c],
                         accepted |-> rate_hist[c].accepted]
        /\ rate_hist' = [rate_hist EXCEPT
                           ![c] = IF r.ret
                                    THEN [@ EXCEPT !.accepted = Append(@, t)]
                                    ELSE [@ EXCEPT !.rejected_at = t]]
        /\ UNCHANGED <<store_vars, reply_vars, http_vars, singleton_vars, step_vars>>

(***************************************************************************)
(* ProViewCoachOutput (app/schemas.py)                                     *)
(***************************************************************************)
Digits == {"0", "1", "2", "3", "4", "5", "6", "7", "8", "9"}

DigitValue(c) ==
  CASE c = "0" -> 0 [] c = "1" -> 1 [] c = "2" -> 2 [] c = "3" -> 3 [] c = "4" -> 4
    [] c = "5" -> 5 [] c = "6" -> 6 [] c = "7" -> 7 [] c = "8" -> 8 [] OTHER -> 9

\* int(match.group(1))
IntOf(digits) ==
  IF Len(digits) = 1 THEN DigitValue(digits[1])
  ELSE 10 * DigitValue(digits[1]) + DigitValue(digits[2])

\* re.match(r'^(\d{1,2})/10$', v): the digits matched, <<>> when there is no
\* match. Python's $ matches at the end of the string and also just before a
\* newline that ends it.
ScoreMatch(v) ==
  LET core == IF v # <<>> /\ v[Len(v)] = "\n" THEN SubSeq(v, 1, Len(v) - 1) ELSE v
      n == Len(core) - 3
  IN  IF /\ n \in {1, 2}
         /\ SubSeq(core, n + 1, n + 3) = <<"/", "1", "0">>
         /\ \A i \in 1..n : core[i] \in Digits
        THEN SubSeq(core, 1, n)
        ELSE <<>>

\* ProViewCoachOutput.validate_score: TRUE when v is accepted (returned as it
\* is), FALSE when ValueError is raised
validate_score(v) ==
  IF v = None THEN TRUE
  ELSE IF ScoreMatch(v[1]) = <<>> THEN FALSE
  ELSE 0 <= IntOf(ScoreMatch(v[1])) /\ IntOf(ScoreMatch(v[1])) <= 10

\* ProViewCoachOutput.validate_interviewer_chat: TRUE when v is accepted (and
\* stored stripped), FALSE when ValueError is raised
validate_interviewer_chat(v) == ~Blank(v)

\* A ProViewCoachOutput object: the fields the claims are about (is_correct
\* and refined_explanation are carried through untouched by all of this code)
NoReply == [interviewer_chat |-> <<>>, score |-> None, suggested_replies |-> None]

\* ProViewCoachOutput(**raw): the validated object, or ok = FALSE for the
\* ValidationError (a ValueError) pydantic raises
Construct(raw) ==
  IF /\ validate_interviewer_chat(raw.interviewer_chat)
     /\ validate_score(raw.score)
     /\ raw.suggested_replies # None
    THEN [ok |-> TRUE,
          obj |-> [interviewer_chat |-> Strip(raw.interviewer_chat),
                   score |-> raw.score,
                   suggested_replies |-> raw.suggested_replies]]
    ELSE [ok |-> FALSE, obj |-> NoReply]

\* ProViewCoachOutput(interviewer_chat=..., suggested_replies=[...]) as the
\* code builds its fixed replies
FixedReply(chat, suggestions) ==
  Construct([interviewer_chat |-> <<chat>>, score |-> None,
             suggested_replies |-> Some(suggestions)]).obj

(***************************************************************************)
(* get_proview_response and validate_response (app/services.py)            *)
(***************************************************************************)
EmptyInputReply ==
  FixedReply("I didn't receive your message. Could you please try again?",
             <<"Tell me about yourself", "I need help preparing for an interview">>)

SessionErrorReply ==
  FixedReply("Session error. Please refresh and try again.", <<"Refresh page">>)

TypeErrorReply ==
  FixedReply("I encountered a formatting error. Let's start fresh. What role are you interviewing for?",
             <<"Software Engineer", "Product Manager", "Data Scientist", "Other role">>)

ValueErrorReply ==
  FixedReply("I couldn't process that input. Could you rephrase your message?",
             <<"Tell me about yourself", "I'm preparing for a job interview">>)

ExceptionReply ==
  FixedReply("I apologize, but I encountered an issue. Let's try again. What would you like help with?",
             <<"Start interview practice", "Upload my resume", "Get feedback on my answer">>)

\* Mutant: the handlers log and re-raise
HandleException_reraises(exc) == [reply |-> NoReply, raised |-> exc]

\* The except clauses of get_proview_response (lines 102-130)
HandleException(exc) ==
  CASE exc = "TypeError" -> [reply |-> TypeErrorReply, raised |-> "none"]
    [] exc = "ValueError" -> [reply |-> ValueErrorReply, raised |-> "none"]
    [] OTHER -> [reply |-> ExceptionReply, raised |-> "none"]

\* Mutant: an empty interviewer_chat is returned as the chain gave it
EnsureChat_absent(response) == response

\* "Ensure interviewer_chat is not empty" (lines 90-95)
EnsureChat(response) ==
  IF Blank(response.interviewer_chat)
    THEN [response EXCEPT
            !.interviewer_chat =
               <<"I'm processing your request. Could you please provide more details?">>,
            !.suggested_replies =
               IF response.suggested_replies = None \/ response.suggested_replies = Some(<<>>)
                 THEN Some(<<"Tell me more", "What role are you preparing for?">>)
                 ELSE response.suggested_replies]
    ELSE response

\* What get_chain() and chain.invoke() do, with the raw fields of the model's
\* structured answer:
\*   init_raises    get_chain() raises exc
\*   invoke_raises  chain.invoke raises exc
\*   not_instance   chain.invoke returns something that is no ProViewCoachOutput
\*   parsed         the answer goes through ProViewCoachOutput(**raw)
\*   instance       a ProViewCoachOutput whose fields were not validated
\*                  (model_construct, or assigned after construction: the
\*                  model does not validate assignments)
Upstream(kind, exc, raw) == [kind |-> kind, exc |-> exc, raw |-> raw]

\* get_chain() raises; chain.invoke returns something that is no
\* ProViewCoachOutput
InitFails == Upstream("init_raises", "Exception", NoReply)
NotInstance == Upstream("not_instance", "none", NoReply)

\* get_proview_response(user_input, chat_history, session_id). rfault, docs:
\* the retrieval's store fault and search result; up: the chain's outcome.
get_proview_response(user_input, session_id, rfault, docs, up) ==
  IF Blank(user_input)
    THEN [reply |-> EmptyInputReply, raised |-> "none", invoked |-> FALSE, context |-> ""]
  ELSE IF session_id = <<>>
    THEN [reply |-> SessionErrorReply, raised |-> "none", invoked |-> FALSE, context |-> ""]
  ELSE
    LET context == get_retrieved_context(user_input, session_id, DefaultK, rfault, docs).msg
        handled(exc, invoked) ==
          [reply |-> HandleException(exc).reply, raised |-> HandleException(exc).raised,
           invoked |-> invoked, context |-> context]
        returned(response) ==
          [reply |-> EnsureChat(response), raised |-> "none", invoked |-> TRUE,
           context |-> context]
    IN  CASE up.kind = "init_raises" -> handled(up.exc, FALSE)
          [] up.kind = "invoke_raises" -> handled(up.exc, TRUE)
          [] up.kind = "not_instance" -> handled("TypeError", TRUE)
          [] up.kind = "parsed" ->
               IF Construct(up.raw).ok THEN returned(Construct(up.raw).obj)
               ELSE handled("ValueError", TRUE)
          [] OTHER -> returned(up.raw)

\* validate_response(response)
validate_response(response) ==
  [interviewer_chat |->
     IF Blank(response.interviewer_chat)
       THEN <<"I'm here to help you prepare for your interview. What would you like to work on?">>
       ELSE response.interviewer_chat,
   suggested_replies |->
     IF response.suggested_replies = None THEN Some(<<>>) ELSE response.suggested_replies,
   score |->
     IF response.score # None /\ response.score # Some(<<>>)
       THEN IF ScoreMatch(response.score[1]) = <<>> THEN None ELSE response.score
       ELSE response.score]

\* Inputs of the response generator
UserInputs == { <<>>, <<" ">>, <<"hi">> }
ChatSessions == { <<>>, SessA }
RawChats == { <<>>, <<" ">>, <<"Hello">>, <<" ", "Hello", "\n">> }
RawScores ==
  { None,
    Some(<<>>),
    Some(<<"7", "/", "1", "0">>),
    Some(<<"1", "0", "/", "1", "0">>),
    Some(<<"1", "1", "/", "1", "0">>),
    Some(<<"7", "/", "5">>),
    Some(<<"7", "/", "1", "0", "\n">>) }
RawSuggestions == { None, Some(<<>>), Some(<<"Ask me another">>) }
RawReplies ==
  [interviewer_chat : RawChats, score : RawScores, suggested_replies : RawSuggestions]
Exceptions == {"TypeError", "ValueError", "Exception"}
\* One chain that fails to build and one whose answer validates
TwoUpstreams ==
  { Upstream("init_raises", "Exception", NoReply),
    Upstream("parsed", "none",
             [interviewer_chat |-> <<"Hello">>, score |-> None,
              suggested_replies |-> Some(<<>>)]) }
Upstreams ==
  {Upstream(k, e, NoReply) : k \in {"init_raises", "invoke_raises"}, e \in Exceptions}
    \cup {Upstream("not_instance", "none", NoReply)}
    \cup {Upstream(k, "none", r) : k \in {"parsed", "instance"}, r \in RawReplies}

NoReplyCall ==
  [op |-> "none", user_input |-> <<>>, session |-> <<>>, rfault |-> "none",
   up |-> Upstream("none", "none", NoReply), arg |-> NoReply, reply |-> NoReply,
   raised |-> "none", invoked |-> FALSE, context |-> "", found |-> 0]

ReplyInit == reply_call = NoReplyCall

\* A chat turn's call of get_proview_response; found: how many chunks of the
\* session the store held when the call retrieved. UI, SS, US: the user inputs,
\* session ids and chain outcomes drawn. An input the call never consults is
\* held at one value.
GetProviewResponseOf(UI, SS, US) ==
  \E u \in UI, s \in SS, rfault \in {"none", "search"}, up \in US :
    \E docs \in SimilaritySearch(store, s, DefaultK) :
      LET r == get_proview_response(u, s, rfault, docs, up)
          context == get_retrieved_context(u, s, DefaultK, rfault, docs)
          retrieved == ~Blank(u) /\ s # <<>>
      IN  /\ retrieved \/ (rfault = "none" /\ up = NotInstance)
          /\ retrieved => context.fault = rfault
          /\ reply_call' = [NoReplyCall EXCEPT
                              !.op = "get_proview_response", !.user_input = u,
                              !.session = s, !.rfault = rfault, !.up = up,
                              !.reply = r.reply, !.raised = r.raised,
                              !.invoked = r.invoked, !.context = r.context,
                              !.found = IF retrieved
                                          THEN Cardinality(StoreGetWhere(store, s))
                                          ELSE 0]
          /\ UNCHANGED <<store_vars, clock, rate_vars, http_vars, singleton_vars, step_vars>>

GetProviewResponse == GetProviewResponseOf(UserInputs, ChatSessions, Upstreams)

\* validate_response applied to a reply object
ValidateResponse ==
  \E response \in RawReplies :
    /\ reply_call' = [NoReplyCall EXCEPT !.op = "validate_response", !.arg = response,
                                         !.reply = validate_response(response)]
    /\ UNCHANGED <<store_vars, clock, rate_vars, http_vars, singleton_vars, step_vars>>

(***************************************************************************)
(* The store as a state machine: one action per call                       *)
(***************************************************************************)
NoStats ==
  [error |-> FALSE, document_count |-> 0, has_data |-> FALSE, source_files |-> {},
   fault |-> "none"]

\* last: the call that just returned, with its arguments, the store it found
\* (before), the store fault it hit and what it returned
NoCall ==
  [op |-> "none", session |-> <<>>, hours |-> None, fault |-> "none", ret |-> 0,
   raised |-> "none", before |-> {}, at |-> 0, cutoff |-> 0, docs |-> <<>>,
   ctx |-> <<>>, msg |-> "", query |-> <<>>, k |-> 0, file |-> <<>>, stats |-> NoStats,
   db |-> FALSE, searched_k |-> 0, detail |-> ""]

NoPrev ==
  [op |-> "none", session |-> <<>>, hours |-> None, fault |-> "none", ret |-> 0,
   at |-> 0, cutoff |-> 0, had |-> FALSE]

\* prev: the call that returned just before the last one, kept when both are
\* the same deletion (clear_session_data of one session, janitor_cleanup with
\* one threshold)
Summary(l, op, session, hours) ==
  IF /\ l.op = op
     /\ op = "clear_session_data" => l.session = session
     /\ op = "janitor_cleanup" => Threshold(l.hours) = Threshold(hours)
    THEN [op |-> l.op, session |-> l.session, hours |-> l.hours, fault |-> l.fault,
          ret |-> l.ret, at |-> l.at, cutoff |-> l.cutoff,
          had |-> \E c \in l.before : c.session_id = l.session]
    ELSE NoPrev

\* The multipart upload of POST /upload: the client's file name with its
\* suffix, the content-length header, the size of the bytes sent and what the
\* loader extracts from them
(***************************************************************************)
(* get_embeddings and get_vector_db                                        *)
(***************************************************************************)
\* The threads of the API process: the event loop, which runs the handlers
\* one after the other, and the pool threads that run the janitor_cleanup
\* tasks the chat handler adds
EventLoop == "loop"
PoolThreads == {"worker1", "worker2"}
Threads == {EventLoop} \cup PoolThreads

IdleThread == [pc |-> "idle", emb |-> None]

SingletonInit ==
  /\ vector_db_instance = None
  /\ embeddings_instance = None
  /\ threads = [t \in Threads |-> IdleThread]
  /\ constructed = [db |-> 0, emb |-> 0, calls |-> 0, tasks |-> 0]
  /\ handed_out = {}

other_vars == <<store_vars, clock, rate_vars, reply_vars, http_vars, step_vars>>

\* A thread enters get_vector_db(): the event loop in a handler, a pool
\* thread in a janitor_cleanup task that a chat handler added
CallGetVectorDb(t) ==
  /\ threads[t].pc = "idle"
  /\ constructed.calls < MaxCalls
  /\ t \in PoolThreads => constructed.tasks > 0
  /\ threads' = [threads EXCEPT ![t].pc = "db_check"]
  /\ constructed' = [constructed EXCEPT
                       !.calls = @ + 1,
                       !.tasks = IF t \in PoolThreads THEN @ - 1 ELSE @]
  /\ UNCHANGED <<vector_db_instance, embeddings_instance, handed_out, other_vars>>

\* "if _vector_db_instance is None"
DbCheck(t) ==
  /\ threads[t].pc = "db_check"
  /\ threads' = [threads EXCEPT
                   ![t].pc = IF vector_db_instance = None THEN "emb_check" ELSE "db_return"]
  /\ UNCHANGED <<vector_db_instance, embeddings_instance, constructed, handed_out, other_vars>>

\* get_embeddings(): "if _embeddings_instance is None"
EmbCheck(t) ==
  /\ threads[t].pc = "emb_check"
  /\ threads' = [threads EXCEPT
                   ![t].pc = IF embeddings_instance = None THEN "emb_construct"
                             ELSE "emb_return"]
  /\ UNCHANGED <<vector_db_instance, embeddings_instance, constructed, handed_out, other_vars>>

\* "_embeddings_instance = HuggingFaceEmbeddings(...)": a new instance is
\* bound to the global, or the constructor raises
EmbConstruct(t) ==
  /\ threads[t].pc = "emb_construct"
  /\ \/ /\ embeddings_instance' = Some(constructed.emb + 1)
        /\ constructed' = [constructed EXCEPT !.emb = @ + 1]
        /\ threads' = [threads EXCEPT ![t].pc = "emb_return"]
     \/ /\ threads' = [threads EXCEPT ![t].pc = "raised"]
        /\ UNCHANGED <<embeddings_instance, constructed>>
  /\ UNCHANGED <<vector_db_instance, handed_out, other_vars>>

\* "return _embeddings_instance": the global as it is now
EmbReturn(t) ==
  /\ threads[t].pc = "emb_return"
  /\ threads' = [threads EXCEPT ![t].pc = "db_construct", ![t].emb = embeddings_instance]
  /\ UNCHANGED <<vector_db_instance, embeddings_instance, constructed, handed_out, other_vars>>

\* "_vector_db_instance = Chroma(...)": a new instance is bound to the
\* global, or the constructor raises
DbConstruct(t) ==
  /\ threads[t].pc = "db_construct"
  /\ \/ /\ vector_db_instance' =
             Some([id |-> constructed.db + 1, embedding_function |-> threads[t].emb])
        /\ constructed' = [constructed EXCEPT !.db = @ + 1]
        /\ threads' = [threads EXCEPT ![t].pc = "db_return"]
     \/ /\ threads' = [threads EXCEPT ![t].pc = "raised"]
        /\ UNCHANGED <<vector_db_instance, constructed>>
  /\ UNCHANGED <<embeddings_instance, handed_out, other_vars>>

\* "return _vector_db_instance": the global as it is now
DbReturn(t) ==
  /\ threads[t].pc = "db_return"
  /\ handed_out' = handed_out \cup {vector_db_instance}
  /\ threads' = [threads EXCEPT ![t].pc = "done"]
  /\ UNCHANGED <<vector_db_instance, embeddings_instance, constructed, other_vars>>

\* The caller goes on with what it got or catches what was raised; the chat
\* handler on the event loop has added a janitor_cleanup task, which a pool
\* thread runs once the response is sent
Finish(t) ==
  /\ threads[t].pc \in {"done", "raised"}
  /\ threads' = [threads EXCEPT ![t] = IdleThread]
  /\ constructed' = [constructed EXCEPT
                       !.tasks = IF t = EventLoop THEN @ + 1 ELSE @]
  /\ UNCHANGED <<vector_db_instance, embeddings_instance, handed_out, other_vars>>

NoUpload ==
  [filename |-> "", suffix |-> "", content_length |-> None, size_mb |-> 0, units |-> 0]

\* http_last: the request (endpoint, key and arguments), the response (status
\* and detail) and what the exchange did: whether the vector store and the
\* rate-limit store changed, whether the handler's function was called
\* background_tasks.add_task(janitor_cleanup): the task as added, not yet run
JanitorTask == [func |-> "janitor_cleanup", hours |-> None, ran |-> FALSE]

NoHttp ==
  [endpoint |-> "none", key |-> None, status |-> 0, detail |-> "", session |-> <<>>,
   up |-> NoUpload, hours |-> 0, called |-> FALSE, store_changed |-> FALSE,
   rate_changed |-> FALSE, history |-> <<>>, passed |-> <<>>, cause |-> "",
   scheduled |-> FALSE, tasks |-> <<>>]

HttpInit ==
  /\ http_last = NoHttp
  /\ temp_files = {}

\* Nothing split yet, no thread inside check_rate_limit or a store call
NoSplit == [unit |-> <<>>, chunks |-> <<>>, done |-> FALSE]

StepInit ==
  /\ split = NoSplit
  /\ rl_threads = <<>>
  /\ db_threads = <<>>

BaseInit ==
  /\ store = {}
  /\ clock = 0
  /\ next_id = 0
  /\ last = NoCall
  /\ prev = NoPrev
  /\ RateInit
  /\ ReplyInit
  /\ HttpInit
  /\ SingletonInit

StoreInit == BaseInit /\ StepInit

\* POST /upload's call of process_file. FS, SS: the files and session ids
\* drawn; CV: the clock readings drawn (time.time() does not run backwards).
\* An input the call never consults is held at one value.
Upload(FS, SS, CV) ==
  \E f \in FS, s \in SS, fault \in {"none", "load", "db", "add"},
     n \in 0..MaxIds, t \in {t \in CV : t >= clock} :
    LET r == process_file(store, f, s, fault, n, t, next_id)
    IN  /\ r.fault = fault
        /\ r.stamped \/ (t = clock /\ n = 0)
        /\ next_id + r.ret <= MaxIds
        /\ store' = r.store
        /\ next_id' = next_id + r.ret
        /\ clock' = t
        /\ prev' = NoPrev
        /\ last' = [NoCall EXCEPT !.op = "process_file", !.session = s, !.fault = r.fault,
                                  !.ret = r.ret, !.raised = r.raised, !.before = store,
                                  !.at = t, !.file = f.path, !.detail = r.detail]
        /\ UNCHANGED <<rate_vars, reply_vars, http_vars, singleton_vars, step_vars>>

Retrieve(QS, SS, KS) ==
  \E q \in QS, s \in SS, k \in KS, fault \in {"none", "db", "search"} :
    \E docs \in SimilaritySearch(store, s, EffectiveK(k)) :
      LET r == get_retrieved_context(q, s, k, fault, docs)
      IN  /\ r.fault = fault
          /\ prev' = NoPrev
          /\ last' = [NoCall EXCEPT !.op = "get_retrieved_context", !.session = s,
                                    !.fault = r.fault, !.before = store, !.at = clock,
                                    !.docs = r.docs, !.ctx = r.ctx, !.msg = r.msg,
                                    !.query = q, !.k = k, !.db = r.db,
                                    !.raised = r.raised,
                                    !.searched_k = r.searched_k]
          /\ UNCHANGED <<store, clock, next_id>>
          /\ UNCHANGED <<rate_vars, reply_vars, http_vars, singleton_vars, step_vars>>

Clear(SS) ==
  \E s \in SS, fault \in {"none", "db", "get", "delete"} :
    LET r == clear_session_data(store, s, fault)
    IN  /\ r.fault = fault
        /\ store' = r.store
        /\ prev' = Summary(last, "clear_session_data", s, None)
        /\ last' = [NoCall EXCEPT !.op = "clear_session_data", !.session = s,
                                  !.fault = r.fault, !.ret = r.ret, !.before = store,
                                  !.at = clock]
        /\ UNCHANGED <<clock, next_id>>
        /\ UNCHANGED <<rate_vars, reply_vars, http_vars, singleton_vars, step_vars>>

Janitor(HS, CV) ==
  \E hours \in HS, t \in {t \in CV : t >= clock},
     fault \in {"none", "db", "get", "delete"} :
    LET r == janitor_cleanup(store, hours, t, fault)
    IN  /\ r.fault = fault
        /\ store' = r.store
        /\ clock' = t
        /\ prev' = Summary(last, "janitor_cleanup", <<>>, hours)
        /\ last' = [NoCall EXCEPT !.op = "janitor_cleanup", !.hours = hours,
                                  !.fault = r.fault, !.ret = r.ret, !.raised = r.raised,
                                  !.before = store, !.at = t,
                                  !.cutoff = CutoffTime(t, hours)]
        /\ UNCHANGED next_id
        /\ UNCHANGED <<rate_vars, reply_vars, http_vars, singleton_vars, step_vars>>

\* Mutant: reading the statistics of a session stamps its chunks anew
Stats_restamping(SS) ==
  \E s \in SS :
    LET r == get_session_stats(store, s, "none")
    IN  /\ store' = {IF c.session_id = s THEN [c EXCEPT !.timestamp = clock] ELSE c : c \in store}
        /\ prev' = NoPrev
        /\ last' = [NoCall EXCEPT !.op = "get_session_stats", !.session = s,
                                  !.fault = r.fault, !.before = store, !.at = clock,
                                  !.stats = r]
        /\ UNCHANGED <<clock, next_id>>
        /\ UNCHANGED <<rate_vars, reply_vars, http_vars, singleton_vars, step_vars>>

Stats(SS) ==
  \E s \in SS, fault \in {"none", "db", "get"} :
    LET r == get_session_stats(store, s, fault)
    IN  /\ r.fault = fault
        /\ prev' = NoPrev
        /\ last' = [NoCall EXCEPT !.op = "get_session_stats", !.session = s,
                                  !.fault = r.fault, !.before = store, !.at = clock,
                                  !.stats = r]
        /\ UNCHANGED <<store, clock, next_id>>
        /\ UNCHANGED <<rate_vars, reply_vars, http_vars, singleton_vars, step_vars>>

(***************************************************************************)
(* The HTTP boundaries (main.py)                                           *)
(***************************************************************************)
\* ProViewConfig.PROVIEW_API_KEY, at its default
PROVIEW_API_KEY == "default-secret-key-change-me"

\* The X-ProView-Key header of a request: absent, empty, wrong or right
Keys == {None, Some(""), Some("wrong-key"), Some(PROVIEW_API_KEY)}
RightKey == {Some(PROVIEW_API_KEY)}

\* Mutant: only a header that is present and differs is refused
verify_api_key_absent_passes(x_proview_key) ==
  x_proview_key = None \/ x_proview_key = Some("") \/ x_proview_key[1] = PROVIEW_API_KEY

\* verify_api_key: TRUE when it returns, FALSE when it raises the 403
verify_api_key(x_proview_key) ==
  ~(x_proview_key = None \/ x_proview_key = Some("") \/ x_proview_key[1] # PROVIEW_API_KEY)

\* ProViewConfig.TEMP_UPLOAD_DIR
TEMP_UPLOAD_DIR == "temp_uploads"

\* The uploads drawn
UploadedFiles ==
  { [filename |-> "resume.txt", suffix |-> ".txt", content_length |-> Some(1),
     size_mb |-> 1, units |-> 1],
    [filename |-> "jd.PDF", suffix |-> ".PDF", content_length |-> None,
     size_mb |-> 2, units |-> 2],
    [filename |-> "notes.md", suffix |-> ".md", content_length |-> Some(1),
     size_mb |-> 1, units |-> 1],
    [filename |-> "resume", suffix |-> "", content_length |-> Some(1),
     size_mb |-> 1, units |-> 1],
    [filename |-> "big.txt", suffix |-> ".txt", content_length |-> Some(11),
     size_mb |-> 11, units |-> 1],
    [filename |-> "huge.pdf", suffix |-> ".pdf", content_length |-> None,
     size_mb |-> 11, units |-> 1],
    [filename |-> "blank.docx", suffix |-> ".docx", content_length |-> Some(1),
     size_mb |-> 0, units |-> 0],
    [filename |-> "", suffix |-> "", content_length |-> Some(1),
     size_mb |-> 1, units |-> 1] }

\* generate_safe_filename: session id, unique id, time stamp and the
\* lower-cased suffix
generate_safe_filename(session_id, suffix, unique_id, current_time) ==
  ToString(session_id) \o "_" \o unique_id \o "_" \o ToString(current_time) \o Lower(suffix)

\* Mutant: the temporary file is left where it is
RemoveTemp_noop(files, path) == files

\* os.remove(temp_path) where it exists
RemoveTemp(files, path) == files \ {path}

\* The file process_file finds at temp_path once the upload was written there
SavedFile(up, temp_path) ==
  [path |-> temp_path, exists |-> TRUE, is_file |-> TRUE, size_mb |-> up.size_mb,
   suffix |-> Lower(up.suffix), units |-> up.units]

\* Mutant: the 500 does not say what failed
UploadFailedDetail_generic(text) == "Upload failed"

\* detail=f"Upload failed: {str(e)}"
UploadFailedDetail(text) == "Upload failed: " \o text

NoProcess ==
  [raised |-> "none", detail |-> "", ret |-> 0, store |-> {}, fault |-> "none",
   stamped |-> FALSE]

\* upload_document past its key check. Returns the response (status, detail,
\* chunks_created), the three stores afterwards, whether process_file was
\* called and what it did.
upload_document(st, rls, files, client_ip, up, session_id, unique_id, fault, n_splits, current_time, first_id) ==
  LET rl == check_rate_limit(rls, client_ip, current_time)
      temp_path == <<TEMP_UPLOAD_DIR,
                     generate_safe_filename(session_id, up.suffix, unique_id, current_time)>>
      written == files \cup {temp_path}
      pf == process_file(st, SavedFile(up, temp_path), session_id, fault, n_splits,
                         current_time, first_id)
      early(status, detail) ==
        [status |-> status, detail |-> detail, chunks_created |-> 0, store |-> st,
         rls |-> rl.store, temp |-> files, called |-> FALSE, pf |-> NoProcess,
         temp_path |-> <<>>]
      late(status, detail) ==
        [status |-> status, detail |-> detail, chunks_created |-> pf.ret, store |-> pf.store,
         rls |-> rl.store, temp |-> RemoveTemp(written, temp_path), called |-> TRUE,
         pf |-> pf, temp_path |-> temp_path]
  IN  IF ~rl.ret
        THEN early(429, "Too many requests. Please wait before uploading again.")
      ELSE IF up.filename = ""
        THEN early(400, "No filename provided")
      ELSE IF Lower(up.suffix) \notin ALLOWED_EXTENSIONS
        THEN early(400, "Unsupported file type")
      ELSE IF up.content_length # None /\ up.content_length[1] > MAX_FILE_SIZE_MB
        THEN early(413, "File too large")
      ELSE IF up.size_mb > MAX_FILE_SIZE_MB
        THEN [early(413, "File exceeds maximum size") EXCEPT
                !.temp = RemoveTemp(RemoveTemp(written, temp_path), temp_path)]
      ELSE IF pf.raised = "ValueError" THEN late(400, pf.detail)
      ELSE IF pf.raised = "Exception" THEN late(500, UploadFailedDetail(pf.detail))
      ELSE late(200, "Successfully processed")

\* The 403 that verify_api_key raises before the handler is entered
Forbidden(endpoint, key) ==
  /\ ~verify_api_key(key)
  /\ http_last' = [NoHttp EXCEPT !.endpoint = endpoint, !.key = key, !.status = 403,
                                 !.detail = "Invalid or missing X-ProView-Key header"]
  /\ UNCHANGED <<store_vars, clock, rate_vars, reply_vars, temp_files, singleton_vars, step_vars>>

\* The handler's call of check_rate_limit(client_ip) at clock reading t
RateChecked(c, t) ==
  LET r == check_rate_limit(rate_limit_store, c, t)
  IN  /\ rate_limit_store' = r.store
      /\ rate_last' = [client |-> c, at |-> t, ret |-> r.ret,
                       before |-> rate_limit_store[c],
                       accepted |-> rate_hist[c].accepted]
      /\ rate_hist' = [rate_hist EXCEPT
                         ![c] = IF r.ret
                                  THEN [@ EXCEPT !.accepted = Append(@, t)]
                                  ELSE [@ EXCEPT !.rejected_at = t]]

\* The external calls that can fail in a request, and none failing
UploadFaults == {"none", "load", "db", "add"}
RetrievalFaults == {"none", "search"}
NoFaults == {"none"}

\* POST /upload past its key check. KS: the keys drawn; UF, SS, FS: the uploads, session ids and
\* failing calls drawn. An input the handler never consults is held at one value.
UploadHandler(KS, UF, SS, FS) ==
  \E key \in KS :
       \E up \in UF, s \in SS, fault \in FS, n \in 0..MaxIds,
          c \in OneClient :
         LET r == upload_document(store, rate_limit_store, temp_files, c, up, s,
                                  "1f0e3dad", fault, n, clock, next_id)
         IN  /\ verify_api_key(key)
             /\ IF r.called
                  THEN r.pf.fault = fault /\ (r.pf.stamped \/ n = 0)
                  ELSE fault = "none" /\ n = 0
             /\ next_id + r.chunks_created <= MaxIds
             /\ store' = r.store
             /\ next_id' = next_id + r.chunks_created
             /\ temp_files' = r.temp
             /\ RateChecked(c, clock)
             /\ IF r.called
                  THEN /\ prev' = NoPrev
                       /\ last' = [NoCall EXCEPT
                                     !.op = "process_file", !.session = s,
                                     !.fault = r.pf.fault, !.ret = r.pf.ret,
                                     !.raised = r.pf.raised, !.before = store,
                                     !.at = clock, !.file = r.temp_path,
                                     !.detail = r.pf.detail]
                  ELSE UNCHANGED <<last, prev>>
             /\ http_last' = [NoHttp EXCEPT
                                !.endpoint = "upload", !.key = key, !.status = r.status,
                                !.detail = r.detail, !.session = s, !.up = up,
                                !.called = r.called, !.store_changed = (r.store # store),
                                !.rate_changed = (r.rls # rate_limit_store),
                                !.cause = IF r.called /\ r.pf.fault # "none"
                                            THEN ExternalErrorText(r.pf.fault) ELSE ""]
             /\ UNCHANGED <<clock, reply_vars, singleton_vars, step_vars>>

\* POST /clear past its key check
ClearHandler(KS, SS, FS) ==
  \E key \in KS :
       \E s \in SS, fault \in FS :
         LET valid == ~(s = <<>> \/ Len(s) < 8)
             r == clear_session_data(store, s, fault)
         IN  /\ verify_api_key(key)
             /\ IF valid THEN r.fault = fault ELSE fault = "none"
             /\ store' = IF valid THEN r.store ELSE store
             /\ IF valid
                  THEN /\ prev' = Summary(last, "clear_session_data", s, None)
                       /\ last' = [NoCall EXCEPT
                                     !.op = "clear_session_data", !.session = s,
                                     !.fault = r.fault, !.ret = r.ret, !.before = store,
                                     !.at = clock]
                  ELSE UNCHANGED <<last, prev>>
             /\ http_last' = [NoHttp EXCEPT
                                !.endpoint = "clear", !.key = key,
                                !.status = IF valid THEN 200 ELSE 400,
                                !.detail = IF valid THEN "Session data cleared successfully"
                                           ELSE "Invalid session_id",
                                !.session = s, !.called = valid,
                                !.store_changed = (valid /\ r.store # store)]
             /\ UNCHANGED <<clock, next_id, rate_vars, reply_vars, temp_files, singleton_vars, step_vars>>

\* GET /session/{session_id}/stats past its key check
StatsHandler(KS, SS, FS) ==
  \E key \in KS :
       \E s \in SS, fault \in FS :
         LET valid == ~(s = <<>> \/ Len(s) < 8)
             r == get_session_stats(store, s, fault)
         IN  /\ verify_api_key(key)
             /\ IF valid THEN r.fault = fault ELSE fault = "none"
             /\ IF valid
                  THEN /\ prev' = NoPrev
                       /\ last' = [NoCall EXCEPT
                                     !.op = "get_session_stats", !.session = s,
                                     !.fault = r.fault, !.before = store, !.at = clock,
                                     !.stats = r]
                  ELSE UNCHANGED <<last, prev>>
             /\ http_last' = [NoHttp EXCEPT
                                !.endpoint = "stats", !.key = key,
                                !.status = IF ~valid THEN 400 ELSE IF r.error THEN 500 ELSE 200,
                                !.detail = IF ~valid THEN "Invalid session_id" ELSE "",
                                !.session = s, !.called = valid]
             /\ UNCHANGED <<store, clock, next_id, rate_vars, reply_vars, temp_files, singleton_vars, step_vars>>

\* POST /admin/cleanup with its hours field, past its key check
CleanupHandler(KS, HS, FS) ==
  \E key \in KS :
       \E hours \in HS, fault \in FS :
         LET valid == ~(hours <= 0)
             r == janitor_cleanup(store, Some(hours), clock, fault)
         IN  /\ verify_api_key(key)
             /\ IF valid THEN r.fault = fault ELSE fault = "none"
             /\ store' = IF valid THEN r.store ELSE store
             /\ IF valid
                  THEN /\ prev' = Summary(last, "janitor_cleanup", <<>>, Some(hours))
                       /\ last' = [NoCall EXCEPT
                                     !.op = "janitor_cleanup", !.hours = Some(hours),
                                     !.fault = r.fault, !.ret = r.ret,
                                     !.raised = r.raised, !.before = store, !.at = clock,
                                     !.cutoff = CutoffTime(clock, Some(hours))]
                  ELSE UNCHANGED <<last, prev>>
             /\ http_last' = [NoHttp EXCEPT
                                !.endpoint = "cleanup", !.key = key,
                                !.status = IF valid THEN 200 ELSE 400,
                                !.detail = IF valid THEN "Cleanup completed"
                                           ELSE "Hours must be positive",
                                !.hours = hours, !.called = valid,
                                !.store_changed = (valid /\ r.store # store)]
             /\ UNCHANGED <<clock, next_id, rate_vars, reply_vars, temp_files, singleton_vars, step_vars>>

\* ProViewConfig.MAX_HISTORY_LENGTH, the N of "the last N turns"
MAX_HISTORY_LENGTH == 3

\* The history of a chat request: turn i is the i-th message, roles
\* alternating (at most 50 turns pass ChatRequest's validation)
Turn(i) == [role |-> IF i % 2 = 1 THEN "user" ELSE "assistant", content |-> ToString(i)]
Histories == {[i \in 1..n |-> Turn(i)] : n \in 0..MaxTurns}

\* Mutant: the first n turns are kept
LastTurns_first(history, n) ==
  SubSeq(history, 1, IF n < Len(history) THEN n ELSE Len(history))

\* data.history[-n:], as Python slices: a negative start counts from the end
\* and stops at the beginning, a start of 0 or more counts from the beginning
LastTurns(history, n) ==
  LET start == IF 0 - n < 0
                 THEN (IF Len(history) - n < 0 THEN 0 ELSE Len(history) - n)
                 ELSE (IF 0 - n > Len(history) THEN Len(history) ELSE 0 - n)
  IN  SubSeq(history, start + 1, Len(history))

\* The list the handler builds from the slice: one dict per message, with the
\* message's role and content
HistoryDicts(messages) ==
  [i \in 1..Len(messages) |-> [role |-> messages[i].role, content |-> messages[i].content]]

\* POST /chat, past its key check, with a request body that passed ChatRequest's validation. HS:
\* the histories drawn; US: the chain outcomes drawn; FS: the failing calls.
ChatHandler(KS, HS, US, FS) ==
  \E key \in KS :
       \E c \in OneClient, history \in HS, rfault \in FS, up \in US :
         \E docs \in SimilaritySearch(store, SessA, DefaultK) :
           LET rl == check_rate_limit(rate_limit_store, c, clock)
               u == <<"hi">>
               r == get_proview_response(u, SessA, rfault, docs, up)
               passed == HistoryDicts(LastTurns(history, MAX_HISTORY_LENGTH))
           IN  /\ verify_api_key(key)
               /\ RateChecked(c, clock)
               /\ get_retrieved_context(u, SessA, DefaultK, rfault, docs).fault = rfault
               /\ rl.ret \/ (history = <<>> /\ rfault = "none"
                               /\ up = InitFails)
               /\ reply_call' =
                    IF rl.ret
                      THEN [NoReplyCall EXCEPT
                              !.op = "get_proview_response", !.user_input = u,
                              !.session = SessA, !.rfault = rfault, !.up = up,
                              !.reply = r.reply, !.raised = r.raised,
                              !.invoked = r.invoked, !.context = r.context,
                              !.found = Cardinality(StoreGetWhere(store, SessA))]
                      ELSE reply_call
               /\ http_last' =
                    IF rl.ret
                      THEN [NoHttp EXCEPT
                              !.endpoint = "chat", !.key = key, !.status = 200,
                              !.session = SessA, !.called = TRUE, !.scheduled = TRUE,
                              !.tasks = <<JanitorTask>>,
                              !.rate_changed = TRUE, !.history = history,
                              !.passed = passed]
                      ELSE [NoHttp EXCEPT
                              !.endpoint = "chat", !.key = key, !.status = 429,
                              !.detail = "Too many requests. Please wait before sending another message.",
                              !.session = SessA, !.history = history,
                              !.rate_changed = (rl.store # rate_limit_store)]
               /\ UNCHANGED <<store_vars, clock, temp_files, singleton_vars, step_vars>>

\* Uploads, retrievals, clears and janitor runs over all the sessions, with the
\* coarse clock
Next ==
  \/ Upload(SomeFiles, Sessions, CoarseClock)
  \/ Retrieve(UsualQueries, Sessions, UsualKs)
  \/ Clear(Sessions)
  \/ Janitor({None}, CoarseClock)

Spec == StoreInit /\ [][Next]_vars

\* Uploads and janitor runs around the thresholds, with the fine clock
JanitorNext ==
  \/ Upload(OneFile, UsualSessions, FineClock)
  \/ Janitor(HourArgs, FineClock)

JanitorSpec == StoreInit /\ [][JanitorNext]_vars

\* Requests of one client reaching the rate limiter
RateNext == CheckRateLimit(OneClient, RateClock)

RateSpec == StoreInit /\ [][RateNext]_vars

\* Chat turns reaching the response generator, and replies validated
ReplyNext == GetProviewResponse \/ ValidateResponse

ReplySpec == StoreInit /\ [][ReplyNext]_vars

\* Retrievals with every query and every k, among uploads and clears
RetrieveNext ==
  \/ Upload(OneFile, {SessA}, {0})
  \/ Retrieve(Queries, UsualSessions, Ks)
  \/ Clear({SessA})

RetrieveSpec == StoreInit /\ [][RetrieveNext]_vars

\* Retrievals alone and inside a chat turn, for a session that uploads, is
\* cleared and is evicted and for one that never uploads
ChatNext ==
  \/ Upload(OneFile, {SessA}, CoarseClock)
  \/ Clear({SessA})
  \/ Janitor({None}, CoarseClock)
  \/ Retrieve({<<"g", "o">>}, UsualSessions, {DefaultK})
  \/ GetProviewResponseOf({<<"hi">>}, {SessA}, TwoUpstreams)

ChatSpec == StoreInit /\ [][ChatNext]_vars

\* A request at each boundary: Depends(verify_api_key) raises the 403 or the
\* handler is entered
UploadRequest(KS, UF, SS, FS) ==
  (\E key \in KS : Forbidden("upload", key)) \/ UploadHandler(KS, UF, SS, FS)

ChatRequest(KS, HS, US, FS) ==
  (\E key \in KS : Forbidden("chat", key)) \/ ChatHandler(KS, HS, US, FS)

ClearRequest(KS, SS, FS) ==
  (\E key \in KS : Forbidden("clear", key)) \/ ClearHandler(KS, SS, FS)

StatsRequest(KS, SS, FS) ==
  (\E key \in KS : Forbidden("stats", key)) \/ StatsHandler(KS, SS, FS)

CleanupRequest(KS, HS, FS) ==
  (\E key \in KS : Forbidden("cleanup", key)) \/ CleanupHandler(KS, HS, FS)

\* Requests with every kind of key at the five boundaries
AuthNext ==
  \/ UploadRequest(Keys, {f \in UploadedFiles : f.filename = "resume.txt"}, {SessA}, NoFaults)
  \/ ChatRequest(Keys, {<<>>}, {InitFails}, NoFaults)
  \/ ClearRequest(Keys, {SessA}, NoFaults)
  \/ StatsRequest(Keys, {SessA}, NoFaults)
  \/ CleanupRequest(Keys, {1}, NoFaults)

AuthSpec == StoreInit /\ [][AuthNext]_vars

\* Uploads of every kind of file with the right key
UploadNext == UploadHandler(RightKey, UploadedFiles, {SessA}, NoFaults)

UploadSpec == StoreInit /\ [][UploadNext]_vars

\* process_file called directly on files that fail its path validation, and uploads that reach
\* it, with every failing call
IngestNext ==
  \/ Upload(BadPathFiles, {SessA}, {0})
  \/ UploadHandler(RightKey, {f \in UploadedFiles : f.filename \in {"resume.txt", "blank.docx"}},
                   {SessA}, UploadFaults)

IngestSpec == StoreInit /\ [][IngestNext]_vars

\* Chat requests with histories of every length
HistoryNext == ChatHandler(RightKey, Histories, TwoUpstreams, RetrievalFaults)

HistorySpec == StoreInit /\ [][HistoryNext]_vars

\* First and later uses of the store by the handlers and the janitor tasks
SingletonNext ==
  \E t \in Threads :
    \/ CallGetVectorDb(t)
    \/ DbCheck(t)
    \/ EmbCheck(t)
    \/ EmbConstruct(t)
    \/ EmbReturn(t)
    \/ DbConstruct(t)
    \/ DbReturn(t)
    \/ Finish(t)

SingletonSpec == StoreInit /\ [][SingletonNext]_vars

(***************************************************************************)
(* Claims about the store                                                  *)
(***************************************************************************)

\* C1 Session isolation: whatever uploads, clears and janitor runs came
\* before, every document get_retrieved_context(query, B, k) returns is a
\* stored chunk whose session_id is B, and every block of the context carries
\* the source and text of such a chunk: no chunk of a session A # B is
\* returned.
C1_SessionIsolation ==
  last.op = "get_retrieved_context" =>
    /\ Len(last.ctx) = Len(last.docs)
    /\ \A i \in DOMAIN last.docs :
         /\ last.docs[i] \in store
         /\ last.docs[i].session_id = last.session
         /\ last.ctx[i].source = last.docs[i].source_file
         /\ last.ctx[i].content = last.docs[i].page_content
    /\ \A c \in store :
         c.session_id # last.session => \A i \in DOMAIN last.docs : last.docs[i] # c

\* C1 witness: a retrieval for one session returned documents while a chunk
\* of another session was in the store.
C1_Witness ==
  /\ last.op = "get_retrieved_context"
  /\ last.msg = "context"
  /\ last.docs # <<>>
  /\ \E c \in store : c.session_id # last.session /\ ~Blank(c.session_id)

\* C2 clear_session_data(s) removes all and only the chunks of session s: after
\* a call that hits no store failure the store is the store before it minus
\* every chunk with session_id = s.
C2_ClearRemovesTheSession ==
  (last.op = "clear_session_data" /\ last.fault = "none") =>
    store = {c \in last.before : c.session_id # last.session}

\* C3 Clear-session idempotence: for a session that owns at least one chunk,
\* two clear_session_data calls in a row (neither hitting a store failure)
\* return a count > 0 and then 0, and the second leaves the store unchanged.
C3_ClearTwice ==
  ( /\ last.op = "clear_session_data"
    /\ prev.op = "clear_session_data"
    /\ prev.had
    /\ prev.fault = "none"
    /\ last.fault = "none" ) =>
    /\ prev.ret > 0
    /\ last.ret = 0
    /\ store = last.before

\* C4 Janitor cutoff: a janitor_cleanup(hours) run at time now that hits no
\* store failure deletes, across all sessions, exactly the chunks with
\* timestamp < now - hours*3600 (hours defaulting to SESSION_TIMEOUT_HOURS) and
\* returns their number; a chunk with timestamp = now - (hours*3600 + 1) is
\* deleted and one with timestamp = now - (hours*3600 - 1) is retained.
C4_JanitorCutoff ==
  (last.op = "janitor_cleanup" /\ last.fault = "none") =>
    LET h == IF last.hours = None THEN SESSION_TIMEOUT_HOURS ELSE last.hours[1]
        now == last.at
    IN  /\ store = {c \in last.before : ~(c.timestamp < now - h * 3600)}
        /\ last.ret = Cardinality(last.before \ store)
        /\ \A c \in last.before :
             /\ c.timestamp = now - (h * 3600 + 1) => c \notin store
             /\ c.timestamp = now - (h * 3600 - 1) => c \in store

\* C4 witness: a default-threshold run deleted a chunk one second past the
\* timeout and kept one a second short of it, in sessions of their own.
C4_Witness ==
  /\ last.op = "janitor_cleanup"
  /\ last.fault = "none"
  /\ last.hours = None
  /\ \E c, d \in last.before :
       /\ c.timestamp = last.at - (SESSION_TIMEOUT_HOURS * 3600 + 1)
       /\ d.timestamp = last.at - (SESSION_TIMEOUT_HOURS * 3600 - 1)
       /\ c.session_id # d.session_id
       /\ c \notin store
       /\ d \in store

\* C5 as stated: when janitor_cleanup is run twice in succession with the same
\* threshold and no chunk is written in between, the second run deletes
\* nothing and returns 0 (here: neither run hits a store failure and the
\* second reads the clock at most a second after the first).
C5_JanitorTwiceDeletesNothing ==
  ( /\ last.op = "janitor_cleanup"
    /\ prev.op = "janitor_cleanup"
    /\ prev.fault = "none"
    /\ last.fault = "none"
    /\ last.at <= prev.at + 1 ) =>
    /\ last.ret = 0
    /\ store = last.before

\* C5 amended: each run reads the clock anew, so the second of two successive
\* runs with the same threshold deletes exactly the chunks whose timestamp is
\* not before the first run's cutoff and is before its own; it deletes nothing
\* and returns 0 when both runs computed the same cutoff.
C5_JanitorTwiceAmended ==
  ( /\ last.op = "janitor_cleanup"
    /\ prev.op = "janitor_cleanup"
    /\ prev.fault = "none"
    /\ last.fault = "none" ) =>
    /\ store = {c \in last.before :
                  ~(prev.cutoff <= c.timestamp /\ c.timestamp < last.cutoff)}
    /\ last.ret = Cardinality(last.before \ store)
    /\ last.cutoff = prev.cutoff => (last.ret = 0 /\ store = last.before)

\* C5 witness: the first of two successive runs deleted chunks, the second,
\* with the same cutoff, returned 0.
C5_Witness ==
  /\ last.op = "janitor_cleanup"
  /\ prev.op = "janitor_cleanup"
  /\ prev.fault = "none"
  /\ last.fault = "none"
  /\ prev.ret > 0
  /\ last.cutoff = prev.cutoff
  /\ last.ret = 0
  /\ store # {}

\* C6 Janitor is non-fatal: when the store cannot be opened or its read or
\* delete fails during janitor_cleanup, the call returns 0, raises nothing and
\* leaves the store as it was.
C6_JanitorNonFatal ==
  (last.op = "janitor_cleanup" /\ last.fault # "none") =>
    /\ last.ret = 0
    /\ last.raised = "none"
    /\ store = last.before

\* C6 witness: the delete call failed in a run that had expired chunks to
\* delete.
C6_Witness ==
  /\ last.op = "janitor_cleanup"
  /\ last.fault = "delete"
  /\ \E c \in last.before : c.timestamp < last.cutoff
  /\ last.ret = 0

(***************************************************************************)
(* Claims about the rate limiter                                           *)
(***************************************************************************)
\* The accepted requests of the window (now - 60, now]
RecentlyAccepted(accepted, now) ==
  {i \in DOMAIN accepted : accepted[i] > now - 60}

\* C7 Rate limiting: with limit 10 per 60-second window, check_rate_limit
\* accepts a client's request exactly when fewer than 10 of that client's
\* accepted requests lie less than 60 seconds back: the first 10 of a window
\* pass, the 11th is rejected, and once 60 seconds have elapsed since the
\* accepted requests the next request is accepted, whatever was rejected in
\* between.
C7_RateLimit ==
  rate_last.client # "" =>
    LET n == Cardinality(RecentlyAccepted(rate_last.accepted, rate_last.at))
    IN  /\ rate_last.ret = (n < 10)
        /\ n >= 10 => ~rate_last.ret
        /\ (\A i \in DOMAIN rate_last.accepted :
              rate_last.at - rate_last.accepted[i] >= 60) => rate_last.ret

\* C7 witness: a client that had 10 requests accepted and then one rejected is
\* accepted again once 60 seconds have passed since the accepted ones.
C7_Witness ==
  /\ rate_last.client # ""
  /\ rate_last.ret
  /\ Len(rate_last.accepted) >= 10
  /\ \A i \in DOMAIN rate_last.accepted : rate_last.at - rate_last.accepted[i] >= 60
  /\ rate_hist[rate_last.client].rejected_at >= 0
  /\ rate_hist[rate_last.client].rejected_at < rate_last.at

\* C7 witness of the rejection: the 11th request inside a window
C7_RejectedWitness ==
  /\ rate_last.client # ""
  /\ ~rate_last.ret
  /\ Len(rate_last.before) >= 10

(***************************************************************************)
(* Claims about the response generator                                     *)
(***************************************************************************)
\* The chain was invoked and the model's answer had an empty or white-space
\* interviewer_chat
UpstreamChatEmpty ==
  /\ reply_call.op = "get_proview_response"
  /\ reply_call.invoked
  /\ reply_call.up.kind \in {"parsed", "instance"}
  /\ \A i \in DOMAIN reply_call.up.raw.interviewer_chat :
       reply_call.up.raw.interviewer_chat[i] \in {" ", "\n"}

FallbackStrings ==
  { <<"I'm processing your request. Could you please provide more details?">>,
    <<"I couldn't process that input. Could you rephrase your message?">> }

FallbackSuggestions ==
  { <<"Tell me more", "What role are you preparing for?">>,
    <<"Tell me about yourself", "I'm preparing for a job interview">> }

NonBlankChat ==
  (reply_call.op = "get_proview_response" /\ reply_call.raised = "none") =>
    \E i \in DOMAIN reply_call.reply.interviewer_chat :
      reply_call.reply.interviewer_chat[i] \notin {" ", "\n"}

\* C8 as stated: every reply get_proview_response returns has an
\* interviewer_chat that is neither empty nor white space, and when the
\* upstream model yields an empty interviewer_chat the reply carries a fixed
\* fallback string and a non-empty list of fallback suggested_replies.
C8_FallbackSuggestionsAlways ==
  /\ NonBlankChat
  /\ UpstreamChatEmpty =>
       /\ reply_call.reply.interviewer_chat \in FallbackStrings
       /\ reply_call.reply.suggested_replies \in {<<l>> : l \in FallbackSuggestions}

\* C8 amended: every reply get_proview_response returns has an
\* interviewer_chat that is neither empty nor white space, and when the
\* upstream model yields an empty interviewer_chat the reply carries a fixed
\* fallback string and a non-empty list of suggested_replies: the upstream
\* object's own list when that object came unvalidated with a non-empty list,
\* a fixed fallback list otherwise.
C8_NonEmptyChat ==
  /\ NonBlankChat
  /\ UpstreamChatEmpty =>
       /\ reply_call.reply.interviewer_chat \in FallbackStrings
       /\ reply_call.reply.suggested_replies \notin {<<>>, << <<>> >>}
       /\ IF /\ reply_call.up.kind = "instance"
             /\ reply_call.up.raw.suggested_replies \notin {<<>>, << <<>> >>}
            THEN reply_call.reply.suggested_replies = reply_call.up.raw.suggested_replies
            ELSE reply_call.reply.suggested_replies \in {<<l>> : l \in FallbackSuggestions}

\* C8 witness: the chain returned an object with a white-space
\* interviewer_chat and a suggestion of its own, and the reply has the fixed
\* string and that suggestion.
C8_Witness ==
  /\ UpstreamChatEmpty
  /\ reply_call.up.kind = "instance"
  /\ reply_call.up.raw.interviewer_chat = <<" ">>
  /\ reply_call.up.raw.suggested_replies = << <<"Ask me another">> >>
  /\ reply_call.reply.interviewer_chat \in FallbackStrings
  /\ reply_call.reply.suggested_replies = << <<"Ask me another">> >>

\* The three replies the except clauses build
TypeErrorFallback ==
  [interviewer_chat |->
     <<"I encountered a formatting error. Let's start fresh. What role are you interviewing for?">>,
   score |-> <<>>,
   suggested_replies |->
     << <<"Software Engineer", "Product Manager", "Data Scientist", "Other role">> >>]

ValueErrorFallback ==
  [interviewer_chat |-> <<"I couldn't process that input. Could you rephrase your message?">>,
   score |-> <<>>,
   suggested_replies |->
     << <<"Tell me about yourself", "I'm preparing for a job interview">> >>]

ExceptionFallback ==
  [interviewer_chat |->
     <<"I apologize, but I encountered an issue. Let's try again. What would you like help with?">>,
   score |-> <<>>,
   suggested_replies |->
     << <<"Start interview practice", "Upload my resume", "Get feedback on my answer">> >>]

FallbackOf(exc) ==
  CASE exc = "TypeError" -> TypeErrorFallback
    [] exc = "ValueError" -> ValueErrorFallback
    [] OTHER -> ExceptionFallback

\* The call went past its input checks (so it retrieved and reached the chain)
PastInputChecks ==
  /\ reply_call.op = "get_proview_response"
  /\ \E i \in DOMAIN reply_call.user_input : reply_call.user_input[i] \notin {" ", "\n"}
  /\ reply_call.session # <<>>

\* The exception the chain ends in ("none": it returned a ProViewCoachOutput)
ChainFailure ==
  CASE reply_call.up.kind \in {"init_raises", "invoke_raises"} -> reply_call.up.exc
    [] reply_call.up.kind = "not_instance" -> "TypeError"
    [] reply_call.up.kind = "parsed" /\ ~Construct(reply_call.up.raw).ok -> "ValueError"
    [] OTHER -> "none"

RetrievalFailure == reply_call.rfault # "none"

C9_RetrievalWitness ==
  /\ PastInputChecks
  /\ RetrievalFailure
  /\ reply_call.up.kind = "parsed"
  /\ reply_call.reply.interviewer_chat = <<"Hello">>
  /\ reply_call.reply.score = << <<"7", "/", "1", "0">> >>

\* The scores X/10 with 0 <= X <= 10
WellFormedScores ==
  {<<d, "/", "1", "0">> : d \in {"0", "1", "2", "3", "4", "5", "6", "7", "8", "9"}}
    \cup {<<"0", d, "/", "1", "0">> : d \in {"0", "1", "2", "3", "4", "5", "6", "7", "8", "9"}}
    \cup {<<"1", "0", "/", "1", "0">>}

\* C10 Score format: a reply that is passed on (returned by
\* get_proview_response or by validate_response) has no score or a score of
\* the form X/10 with 0 <= X <= 10; "11/10" and "7/5" were rejected at
\* construction or normalized to None by validate_response.
C10_ScoreFormat ==
  (reply_call.op # "none" /\ reply_call.raised = "none") =>
    \/ reply_call.reply.score = <<>>
    \/ reply_call.reply.score[1] \in WellFormedScores

\* C10, the part that holds: validate_response turns "7/5" into None
C10_SevenOverFive ==
  (reply_call.op = "validate_response"
     /\ reply_call.arg.score = << <<"7", "/", "5">> >>) =>
    reply_call.reply.score = <<>>

\* validate_response was given the score "11/10"
C10_ElevenWitness ==
  /\ reply_call.op = "validate_response"
  /\ reply_call.arg.score = << <<"1", "1", "/", "1", "0">> >>
  /\ reply_call.reply.score = reply_call.arg.score

(***************************************************************************)
(* Claims about retrieval                                                  *)
(***************************************************************************)
\* A get_retrieved_context call that got as far as the search and had no
\* store failure
Searched ==
  /\ last.op = "get_retrieved_context"
  /\ \E i \in DOMAIN last.query : last.query[i] \notin {" ", "\n", "\t"}
  /\ last.fault = "none"

\* The chunks of the call's session in the store the call found
Matching == {c \in last.before : c.session_id = last.session}

\* C11 as stated: get_retrieved_context clamps k to 1..10: a request with
\* k < 1 or k > 10 is not rejected and the store is searched with k moved to
\* the nearest bound of that range.
C11_ClampToNearestBound ==
  Searched =>
    LET nearest == IF last.k < 1 THEN 1 ELSE IF last.k > 10 THEN 10 ELSE last.k
    IN  /\ last.msg # "Error retrieving context. Please try again."
        /\ last.searched_k = nearest
        /\ Len(last.docs) = IF Cardinality(Matching) < nearest
                              THEN Cardinality(Matching) ELSE nearest

\* C11 amended: a request with k < 1 or k > 10 is not rejected and the store
\* is searched with k = 3, the default, whichever side of the range k lies; a
\* k within 1..10 is used as it is. The call returns as many documents as the
\* session has, up to that k.
C11_OutOfRangeKIsDefault ==
  Searched =>
    LET used == IF last.k < 1 \/ last.k > 10 THEN 3 ELSE last.k
    IN  /\ last.msg # "Error retrieving context. Please try again."
        /\ last.searched_k = used
        /\ Len(last.docs) = IF Cardinality(Matching) < used
                              THEN Cardinality(Matching) ELSE used

\* C11 witness: k = 0 for a session with two chunks returns both.
C11_Witness ==
  /\ Searched
  /\ last.k = 0
  /\ Cardinality(Matching) = 2
  /\ Len(last.docs) = 2

\* C11 witness above the range: k = 11 is searched with 3.
C11_WitnessAbove ==
  /\ Searched
  /\ last.k = 11
  /\ last.searched_k = 3
  /\ Len(last.docs) = 2

\* C12 Empty query: for an empty or white-space query get_retrieved_context
\* returns "No query provided." and makes no store access: get_vector_db() is
\* not called, nothing is searched, no document is returned and the store is
\* as it was.
C12_EmptyQueryShortCircuits ==
  (/\ last.op = "get_retrieved_context"
   /\ \A i \in DOMAIN last.query : last.query[i] \in {" ", "\n", "\t"}) =>
    /\ last.msg = "No query provided."
    /\ ~last.db
    /\ last.searched_k = 0
    /\ last.docs = <<>>
    /\ last.fault = "none"
    /\ store = last.before

\* C12 witness: a white-space query for a session that has chunks.
C12_Witness ==
  /\ last.op = "get_retrieved_context"
  /\ last.query = <<" ">>
  /\ Matching # {}
  /\ last.msg = "No query provided."

\* C12 witness with the empty string
C12_WitnessEmpty ==
  /\ last.op = "get_retrieved_context"
  /\ last.query = <<>>
  /\ Matching # {}
  /\ last.msg = "No query provided."

\* C13 No matching chunk: when no chunk matches the session filter (the
\* session never uploaded, was cleared or was evicted), get_retrieved_context
\* returns the no-context message as a normal result with the store untouched,
\* and a chat turn in that situation goes on to the chain: it is invoked
\* whenever it could be built, and its answer is the reply.
C13_NoContextIsNormal ==
  /\ (Searched /\ Matching = {}) =>
       /\ last.msg = "No relevant context available. Please upload your resume or job description to get personalized interview questions."
       /\ last.docs = <<>>
       /\ store = last.before
  /\ (PastInputChecks /\ ~RetrievalFailure /\ reply_call.found = 0) =>
       /\ reply_call.context = "No relevant context available. Please upload your resume or job description to get personalized interview questions."
       /\ reply_call.raised = "none"
       /\ reply_call.up.kind # "init_raises" => reply_call.invoked
       /\ ChainFailure = "none" =>
            reply_call.reply.interviewer_chat \in
              { reply_call.up.raw.interviewer_chat,
                Strip(reply_call.up.raw.interviewer_chat),
                <<"I'm processing your request. Could you please provide more details?">> }

\* C13 witness: a session that never uploaded is searched while another
\* session's chunks are in the store, after a chat turn that found nothing was
\* answered by the chain.
C13_Witness ==
  /\ Searched
  /\ Matching = {}
  /\ last.before # {}
  /\ last.docs = <<>>
  /\ PastInputChecks
  /\ ~RetrievalFailure
  /\ reply_call.found = 0
  /\ reply_call.invoked
  /\ reply_call.reply.interviewer_chat = <<"Hello">>

\* C13 witness after a clear: the last store call emptied the session and the
\* chat turn found nothing.
C13_WitnessCleared ==
  /\ last.op = "clear_session_data"
  /\ last.ret > 0
  /\ store = {}
  /\ PastInputChecks
  /\ reply_call.found = 0
  /\ reply_call.invoked

\* A get_retrieved_context call during which opening the store or the search
\* (with its embedding of the query) failed
RetrievalFailed ==
  /\ last.op = "get_retrieved_context"
  /\ last.fault \in {"db", "search"}

\* C14 as stated: when the embedding or vector-store call fails during
\* retrieval, get_retrieved_context raises nothing and degrades to the
\* no-context result, the outcome a session without documents gets.
C14_FailureIsNoContext ==
  RetrievalFailed =>
    /\ last.raised = "none"
    /\ last.msg = "No relevant context available. Please upload your resume or job description to get personalized interview questions."
    /\ last.docs = <<>>

\* C14 amended: when the embedding or vector-store call fails during
\* retrieval, get_retrieved_context raises nothing, returns no document and
\* leaves the store as it was, and its result is the fixed string "Error
\* retrieving context. Please try again.", which is not what a session
\* without documents gets.
C14_FailureIsErrorString ==
  RetrievalFailed =>
    /\ last.raised = "none"
    /\ last.msg = "Error retrieving context. Please try again."
    /\ last.docs = <<>>
    /\ store = last.before

\* C14 witness: the search failed for a session that has chunks.
C14_Witness ==
  /\ RetrievalFailed
  /\ last.fault = "search"
  /\ Matching # {}
  /\ last.msg = "Error retrieving context. Please try again."


(***************************************************************************)
(* Claims about the HTTP boundaries                                        *)
(***************************************************************************)
\* A key header that is absent or differs from the configured secret
Unauthorized(key) == key = None \/ key[1] # PROVIEW_API_KEY

ForbiddenDetail == "Invalid or missing X-ProView-Key header"

\* The step is a request carrying an unauthorized key
UnauthorizedRequest == http_last'.endpoint # "none" /\ Unauthorized(http_last'.key)

\* C15: a request to upload, chat, clear, stats or admin cleanup whose key
\* header is absent or differs from the secret gets the same 403 at every
\* boundary and the handler body does not run: the vector store, the
\* rate-limit store, the temporary files and the records of the handlers'
\* calls are as they were.
C15_UniformRejection ==
  [][UnauthorizedRequest =>
       /\ http_last'.endpoint \in {"upload", "chat", "clear", "stats", "cleanup"}
       /\ http_last'.status = 403
       /\ http_last'.detail = ForbiddenDetail
       /\ ~http_last'.called /\ ~http_last'.scheduled
       /\ store' = store /\ next_id' = next_id
       /\ rate_limit_store' = rate_limit_store
       /\ temp_files' = temp_files
       /\ last' = last /\ reply_call' = reply_call]_vars

\* A cleanup request without a key was answered 403 while documents were
\* stored and requests were counted
C15_Witness ==
  /\ http_last.endpoint = "cleanup" /\ http_last.key = None /\ http_last.status = 403
  /\ store # {}
  /\ \E c \in OneClient : rate_limit_store[c] # <<>>

\* A chat request with a wrong key was answered 403 in the same situation
C15_WitnessWrongKey ==
  /\ http_last.endpoint = "chat" /\ http_last.key = Some("wrong-key")
  /\ http_last.status = 403
  /\ store # {}
  /\ \E c \in OneClient : rate_limit_store[c] # <<>>


\* An upload whose extension is outside the allow-list or whose size is above
\* MAX_FILE_SIZE_MB, by its content-length header or by the bytes it carries
BadExtension(up) == Lower(up.suffix) \notin {".pdf", ".docx", ".txt"}
TooLarge(up) ==
  \/ up.content_length # None /\ up.content_length[1] > MAX_FILE_SIZE_MB
  \/ up.size_mb > MAX_FILE_SIZE_MB
FailsValidation(up) == up.filename # "" /\ (BadExtension(up) \/ TooLarge(up))

\* C16: an upload that fails input validation (extension outside .pdf, .docx,
\* .txt, or size above MAX_FILE_SIZE_MB whether seen in content-length or
\* while streaming) is answered with a 4xx status, process_file is not called,
\* the store is as it was and no temporary file remains.
C16_InvalidUploadRejected ==
  [][(http_last'.endpoint = "upload" /\ FailsValidation(http_last'.up)) =>
       /\ http_last'.status \in 400..499
       /\ ~http_last'.called
       /\ store' = store /\ next_id' = next_id
       /\ last' = last
       /\ temp_files' = {}]_vars

\* An oversized upload without a content-length header was refused while
\* streaming, with a document already stored
C16_Witness ==
  /\ http_last.endpoint = "upload" /\ http_last.up.filename = "huge.pdf"
  /\ http_last.up.content_length = None
  /\ http_last.status = 413
  /\ store # {} /\ temp_files = {}

\* An upload with an extension outside the allow-list was refused
C16_WitnessExtension ==
  /\ http_last.endpoint = "upload" /\ http_last.up.filename = "notes.md"
  /\ http_last.status = 400
  /\ store # {} /\ temp_files = {}


\* The texts process_file raises with when one of its own checks fails
ProcessFileErrors ==
  { "Invalid file path: File does not exist",
    "Invalid file path: Path is not a file",
    "Invalid file path: File exceeds maximum size",
    "Unsupported file type",
    "No content could be extracted from the file",
    "Document splitting produced no chunks" }

\* The step ends with a process_file call that failed on record
IngestFailed == last'.op = "process_file" /\ last'.raised # "none"

\* The step is an upload request whose handler called process_file
UploadIngested ==
  /\ http_last'.endpoint = "upload" /\ http_last'.called
  /\ rate_limit_store' # rate_limit_store

\* C17: if process_file fails at any step (path validation, loading, zero
\* extracted units, zero chunks after splitting, the store write raising), the
\* store holds no chunk of that document afterwards (it is as it was before
\* the call) and the failure is raised with the cause text: process_file's
\* own message, or the text of what the loader or the store raised, which the
\* upload boundary passes on in its 400 or 500.
C17_FailedDocumentNotPersisted ==
  [][IngestFailed =>
       /\ store' = store /\ store' = last'.before /\ next_id' = next_id
       /\ last'.ret = 0
       /\ IF last'.fault = "none"
            THEN last'.raised = "ValueError" /\ last'.detail \in ProcessFileErrors
            ELSE last'.detail = "Failed to process file: " \o last'.fault \o " failed"
       /\ UploadIngested =>
            /\ temp_files' = {}
            /\ \/ http_last'.status = 400 /\ http_last'.detail = last'.detail
               \/ /\ http_last'.status = 500
                  /\ http_last'.detail =
                       "Upload failed: Failed to process file: " \o http_last'.cause]_vars

\* An upload whose store write raised was answered 500 with a document
\* already stored
C17_Witness ==
  /\ http_last.endpoint = "upload" /\ http_last.called /\ http_last.status = 500
  /\ last.op = "process_file" /\ last.fault = "add" /\ last.raised = "Exception"
  /\ http_last.cause = "add failed"
  /\ store # {} /\ store = last.before

\* process_file failed on a file that does not exist
C17_WitnessPath ==
  /\ last.op = "process_file" /\ last.raised = "ValueError"
  /\ last.detail = "Invalid file path: File does not exist"
  /\ store # {} /\ store = last.before

\* An upload without extractable content was answered 400
C17_WitnessEmpty ==
  /\ http_last.endpoint = "upload" /\ http_last.called /\ http_last.status = 400
  /\ http_last.detail = "No content could be extracted from the file"
  /\ last.op = "process_file" /\ last.raised = "ValueError"


(***************************************************************************)
(* Claims about chunk metadata                                             *)
(***************************************************************************)
\* The chunk was written by the upload this step ends with
StampedByThisUpload(c) ==
  /\ last'.op = "process_file" /\ last'.raised = "none"
  /\ c.id \notin {d.id : d \in store}
  /\ c.session_id = last'.session
  /\ c.timestamp = last'.at
  /\ c.source_file = Basename(last'.file)

\* C18: every chunk in the store carries the session_id of the upload that
\* created it, a timestamp equal to that upload's ingestion time and a
\* source_file equal to the basename of the ingested path, and no later
\* operation changes these fields: after every step, each chunk either was
\* in the store before, as it is now, or was stamped by the upload just made.
C18_ChunkMetadataFixed ==
  [][/\ \A c \in store' : c \in store \/ StampedByThisUpload(c)
     /\ \A c \in store, d \in store' : c.id = d.id => c = d]_vars

\* Chunks of two sessions, one of them ingested after the first clock
\* reading, are in the store after a janitor run
C18_Witness ==
  /\ last.op = "janitor_cleanup"
  /\ \E c \in store, d \in store :
       /\ c.session_id # d.session_id
       /\ c.timestamp > 0
       /\ c.source_file = "resume.txt"


(***************************************************************************)
(* Claims about the singletons                                             *)
(***************************************************************************)
\* C19: under any interleaving of first uses by the handlers and the janitor
\* tasks, the vector store and the embedding function are each constructed at
\* most once in the process and every caller of get_vector_db gets the same
\* instance.
C19_ConstructedOnce ==
  /\ constructed.db <= 1
  /\ constructed.emb <= 1
  /\ Cardinality(handed_out) <= 1

\* Two callers were in get_vector_db at once, both past the check that found
\* no instance
C19_RaceWindow ==
  \E t \in Threads, u \in Threads :
    /\ t # u
    /\ threads[t].pc \in {"emb_check", "emb_construct", "emb_return", "db_construct"}
    /\ threads[u].pc \in {"emb_check", "emb_construct", "emb_return", "db_construct"}


C20_WitnessShort ==
  /\ http_last.endpoint = "chat" /\ http_last.called
  /\ Len(http_last.history) \in 1..(MAX_HISTORY_LENGTH - 1)
  /\ http_last.passed = http_last.history

(***************************************************************************)
(* Claims: session ids at the HTTP boundaries                              *)
(***************************************************************************)
\* Session ids the schema of the chat request refuses: too short, too long,
\* a character outside the permitted ones, blanks only
SessShort == Rep("a", 3)
SessLong == Rep("a", 101)
SessSlash == Rep("a", 7) \o <<"/">>
MalformedIds == {SessShort, SessLong, SessSlash, SessBlank}

\* The characters of the pattern of validate_session_id
SessionIdChars ==
  { "a", "b", "c", "d", "e", "f", "g", "h", "i", "j", "k", "l", "m", "n", "o", "p", "q", "r",
    "s", "t", "u", "v", "w", "x", "y", "z", "A", "B", "C", "D", "E", "F", "G", "H", "I", "J",
    "K", "L", "M", "N", "O", "P", "Q", "R", "S", "T", "U", "V", "W", "X", "Y", "Z", "0", "1",
    "2", "3", "4", "5", "6", "7", "8", "9", "_", "-" }

SESSION_ID_MIN_LENGTH == 8
SESSION_ID_MAX_LENGTH == 100

\* A session id is malformed when it is shorter than the minimum, longer than
\* the maximum or holds a character outside letters, digits, hyphen, underscore
Malformed(session_id) ==
  \/ Len(session_id) < SESSION_ID_MIN_LENGTH
  \/ Len(session_id) > SESSION_ID_MAX_LENGTH
  \/ \E i \in 1..Len(session_id) : session_id[i] \notin SessionIdChars

\* The upload, clear and stats boundaries with well-formed and malformed ids
SessionIdNext ==
  \/ UploadHandler(RightKey, {f \in UploadedFiles : f.filename = "resume.txt"},
                   {SessShort, SessSlash, SessA}, NoFaults)
  \/ ClearHandler(RightKey, MalformedIds \cup {SessA}, NoFaults)
  \/ StatsHandler(RightKey, MalformedIds \cup {SessA}, NoFaults)

SessionIdSpec == StoreInit /\ [][SessionIdNext]_vars

\* C21: a request with a malformed session id is refused with a validation
\* error at the upload, clear and stats boundaries without reaching the store
\* call, and no chunk is stored under a malformed session id.
C21_MalformedRejected ==
  /\ (http_last.endpoint \in {"upload", "clear", "stats"} /\ Malformed(http_last.session)) =>
       (http_last.status \in {400, 422} /\ ~http_last.called)
  /\ \A c \in store : ~Malformed(c.session_id)

\* What the code does keep: the clear and stats boundaries refuse an id
\* shorter than the minimum
C21_ShortRefusedByClearAndStats ==
  (http_last.endpoint \in {"clear", "stats"} /\ Len(http_last.session) < SESSION_ID_MIN_LENGTH) =>
    (http_last.status = 400 /\ ~http_last.called)

\* An upload with a three-character session id was accepted and its chunks stored
C21_ShortIdStored ==
  /\ http_last.endpoint = "upload" /\ http_last.status = 200
  /\ http_last.session = SessShort
  /\ \E c \in store : c.session_id = SessShort

(***************************************************************************)
(* Claims: eventual eviction                                               *)
(***************************************************************************)
\* Uploads, clears and the janitor runs the chat turns schedule (default
\* threshold), the clock moving on with the calls
EvictNext ==
  \/ Upload(OneFile, {SessA}, FineClock)
  \/ Clear({SessA})
  \/ Janitor({None}, FineClock)

\* A janitor run with the default threshold that meets no store failure
JanitorRuns == Janitor({None}, FineClock) /\ last'.fault = "none"

\* Janitor runs keep occurring: a run that would change something is not
\* postponed for ever
EvictSpec == StoreInit /\ [][EvictNext]_vars /\ WF_vars(JanitorRuns)

\* now - timestamp > SESSION_TIMEOUT_HOURS * 3600 for the stored chunk with this id
TimedOut(id) ==
  \E c \in store : c.id = id /\ clock - c.timestamp > SESSION_TIMEOUT_HOURS * SecondsPerHour

\* C22: when janitor runs with the default threshold keep occurring and the
\* store does not fail, every stored chunk whose age exceeds the session
\* timeout is eventually gone from the store (evicted, or cleared before).
C22_EventualEviction ==
  \A id \in 0..MaxIds : TimedOut(id) ~> (\A c \in store : c.id # id)

\* A janitor run with the default threshold has evicted a timed-out chunk
C22_Witness ==
  /\ last.op = "janitor_cleanup" /\ last.hours = None /\ last.fault = "none"
  /\ last.ret > 0
  /\ \E c \in last.before :
       /\ last.at - c.timestamp > SESSION_TIMEOUT_HOURS * SecondsPerHour
       /\ c \notin store

(***************************************************************************)
(* Claims: upload count and session statistics                             *)
(***************************************************************************)
\* Uploads, statistics and clears of two sessions, one of them the session id
\* of eight blanks that the upload boundary lets through
StatsNext ==
  \/ Upload(OneFile, {SessA, SessBlank}, {0})
  \/ Stats({SessA, SessBlank})
  \/ Clear({SessA})

StatsSpec == StoreInit /\ [][StatsNext]_vars

\* The chunks a process_file call that returned n added: n of them, all tagged
\* with the call's session, nothing else touched
UploadAddedItsCount ==
  (last.op = "process_file" /\ last.raised = "none") =>
    /\ last.before \subseteq store
    /\ Cardinality(store \ last.before) = last.ret
    /\ \A c \in store \ last.before : c.session_id = last.session

\* The document_count get_session_stats reports for the session grew by the
\* count process_file returned
StatsGrewByCount ==
  (last.op = "process_file" /\ last.raised = "none") =>
    get_session_stats(store, last.session, "none").document_count
      = get_session_stats(last.before, last.session, "none").document_count + last.ret

\* A stats result that met no store failure: has_data exactly when
\* document_count > 0, document_count the number of the session's chunks
StatsCountsTheSession ==
  (last.op = "get_session_stats" /\ last.fault = "none") =>
    /\ last.stats.has_data <=> last.stats.document_count > 0
    /\ last.stats.document_count
         = Cardinality({c \in store : c.session_id = last.session})

\* C23: after process_file(f, s) returns n, exactly n new chunks tagged s are
\* in the store and get_session_stats(s).document_count is n higher than
\* before; in every stats result has_data is true exactly when
\* document_count > 0 and document_count is the number of stored chunks whose
\* session_id is s.
C23_UploadCountAgreesWithStats ==
  UploadAddedItsCount /\ StatsGrewByCount /\ StatsCountsTheSession

\* What holds of the code: the count process_file returns is the number of
\* chunks it added under its session id, and for a session id that is not
\* blank the statistics agree with it
C23_HoldsForNonBlankIds ==
  /\ UploadAddedItsCount
  /\ ~Blank(last.session) => (StatsGrewByCount /\ StatsCountsTheSession)

\* Chunks are stored under the blank session id and its statistics say none
C23_BlankSessionCountsNothing ==
  /\ last.op = "get_session_stats" /\ last.session = SessBlank
  /\ last.stats.document_count = 0
  /\ \E c \in store : c.session_id = SessBlank

(***************************************************************************)
(* RecursiveCharacterTextSplitter as process_file configures it            *)
(***************************************************************************)
\* chunk_size=700, chunk_overlap=100, length_function=len,
\* separators=["\n\n", "\n", " ", ""]; the class's own defaults apply to what
\* process_file does not set: the separator is kept at the head of the piece
\* that follows it, and every merged chunk is stripped of leading and
\* trailing whitespace, an empty one dropped. A text is a sequence of
\* characters; a piece, a merged document and a chunk are the range s..e of
\* the positions of the text they hold.
chunk_size == 700
chunk_overlap == 100
separators == << <<"\n", "\n">>, <<"\n">>, <<" ">>, <<>> >>

\* A unit given by its runs of equal characters, written out
RECURSIVE Text(_)
Text(runs) == IF runs = <<>> THEN <<>> ELSE Rep(Head(runs).c, Head(runs).n) \o Text(Tail(runs))

\* Where re.split finds the separator in text[lo..hi], left to right and
\* without overlap: a doubled character matches at every second position of a
\* run of it
MatchStarts(text, lo, hi, sep) ==
  IF Len(sep) = 1
    THEN {p \in lo..hi : text[p] = sep[1]}
    ELSE {p \in lo..(hi - 1) :
            /\ text[p] = sep[1] /\ text[p + 1] = sep[2]
            /\ LET run_start == CHOOSE q \in lo..p :
                                  /\ \A j \in q..p : text[j] = sep[1]
                                  /\ q = lo \/ text[q - 1] # sep[1]
               IN  (p - run_start) % 2 = 0}

\* The members of a set of positions in rising order
Sorted(positions) ==
  [k \in 1..Cardinality(positions) |->
     CHOOSE p \in positions : Cardinality({q \in positions : q < p}) = k - 1]

\* _split_text_with_regex with keep_separator: the pieces of text[lo..hi], each
\* separator at the head of the piece after it, empty pieces left out; with
\* the separator "" the pieces are the characters
Pieces(text, lo, hi, sep) ==
  IF sep = <<>>
    THEN [k \in 1..(hi - lo + 1) |-> [s |-> lo + k - 1, e |-> lo + k - 1]]
    ELSE LET b == Sorted({lo} \cup MatchStarts(text, lo, hi, sep))
         IN  [k \in 1..Len(b) |-> [s |-> b[k], e |-> IF k < Len(b) THEN b[k + 1] - 1 ELSE hi]]

\* The first separator of the list that is "" or occurs in text[lo..hi]
SeparatorIndex(text, lo, hi, seps) ==
  CHOOSE i \in 1..Len(seps) :
    /\ seps[i] = <<>> \/ MatchStarts(text, lo, hi, seps[i]) # {}
    /\ \A j \in 1..(i - 1) : seps[j] # <<>> /\ MatchStarts(text, lo, hi, seps[j]) = {}

PieceLen(piece) == piece.e - piece.s + 1

\* Mutant: the joined document loses its last character
JoinDocs_short(text, s, e) ==
  LET kept == {p \in s..e : ~IsSpace(text[p])}
  IN  IF kept = {} THEN None
      ELSE Some([s |-> CHOOSE p \in kept : \A q \in kept : p <= q,
                 e |-> (CHOOSE p \in kept : \A q \in kept : p >= q) - 1])

\* _join_docs: the pieces s..e joined (the joining separator is "" when
\* separators are kept) and stripped; None when nothing is left
JoinDocs(text, s, e) ==
  LET kept == {p \in s..e : ~IsSpace(text[p])}
  IN  IF kept = {} THEN None
      ELSE Some([s |-> CHOOSE p \in kept : \A q \in kept : p <= q,
                 e |-> CHOOSE p \in kept : \A q \in kept : p >= q])

\* current_doc is the pieces i..j (none when i > j); total is
\* the sum of their lengths
Total(pieces, i, j) ==
  IF i > j THEN 0 ELSE pieces[j].e - pieces[i].s + 1

\* One turn of the for loop of _merge_splits, for piece i
MergeStep(text, pieces, acc, i) ==
  LET len == PieceLen(pieces[i])
      total == Total(pieces, acc.first, acc.last)
      \* the while loop: pieces leave the front of current_doc while total
      \* exceeds the overlap, or the new piece would not fit
      popped == CHOOSE k \in 0..(acc.last - acc.first + 1) :
                  LET Goes(j) == LET t == Total(pieces, acc.first + j, acc.last)
                                 IN  t > chunk_overlap \/ (t + len > chunk_size /\ t > 0)
                  IN  ~Goes(k) /\ \A j \in 0..(k - 1) : Goes(j)
      doc == JoinDocs(text, pieces[acc.first].s, pieces[acc.last].e)
  IN  IF total + len > chunk_size /\ acc.first <= acc.last
        THEN [first |-> IF acc.first + popped > acc.last THEN i ELSE acc.first + popped,
              last |-> i, docs |-> acc.docs \o doc]
        ELSE [first |-> IF acc.first > acc.last THEN i ELSE acc.first,
              last |-> i, docs |-> acc.docs]

\* The for loop of _merge_splits over the pieces lo..hi, in order
RECURSIVE MergeLoop(_, _, _, _, _)
MergeLoop(text, pieces, lo, hi, acc) ==
  IF lo > hi THEN acc
  ELSE IF lo = hi THEN MergeStep(text, pieces, acc, lo)
  ELSE LET mid == (lo + hi) \div 2
           half == MergeLoop(text, pieces, lo, mid, acc)
       IN  IF half.last = mid THEN MergeLoop(text, pieces, mid + 1, hi, half) ELSE half

\* _merge_splits(splits, ""): the documents made of the pieces lo..hi
merge_splits(text, pieces, lo, hi) ==
  IF lo > hi THEN <<>>
  ELSE LET acc == MergeLoop(text, pieces, lo, hi, [first |-> 1, last |-> 0, docs |-> <<>>])
       IN  acc.docs \o JoinDocs(text, pieces[acc.first].s, pieces[acc.last].e)

\* _split_text(text[lo..hi], seps): pieces shorter than chunk_size are
\* gathered and merged, a longer one is split with the separators that
\* follow. _good_splits is the pieces first..last.
RECURSIVE split_text(_, _, _, _)
RECURSIVE SplitLoop(_, _, _, _, _, _)
SplitLoop(text, pieces, new_separators, lo, hi, acc) ==
  IF lo > hi THEN acc
  ELSE IF lo = hi
    THEN IF PieceLen(pieces[lo]) < chunk_size
           THEN [first |-> IF acc.first > acc.last THEN lo ELSE acc.first, last |-> lo,
                 final_chunks |-> acc.final_chunks]
           ELSE [first |-> 1, last |-> 0,
                 final_chunks |->
                   acc.final_chunks \o merge_splits(text, pieces, acc.first, acc.last)
                     \o IF new_separators = <<>>
                          THEN <<pieces[lo]>>
                          ELSE split_text(text, pieces[lo].s, pieces[lo].e, new_separators)]
  ELSE LET mid == (lo + hi) \div 2
           half == SplitLoop(text, pieces, new_separators, lo, mid, acc)
       IN  IF half.last <= mid
             THEN SplitLoop(text, pieces, new_separators, mid + 1, hi, half) ELSE half

split_text(text, lo, hi, seps) ==
  LET i == SeparatorIndex(text, lo, hi, seps)
      pieces == Pieces(text, lo, hi, seps[i])
      new_separators == IF seps[i] = <<>> THEN <<>> ELSE SubSeq(seps, i + 1, Len(seps))
      acc == SplitLoop(text, pieces, new_separators, 1, Len(pieces),
                       [first |-> 1, last |-> 0, final_chunks |-> <<>>])
  IN  acc.final_chunks \o merge_splits(text, pieces, acc.first, acc.last)

\* splitter.split_documents for one extracted unit: the chunks, as ranges of
\* the unit's positions
split_documents(text) == IF text = <<>> THEN <<>> ELSE split_text(text, 1, Len(text), separators)

\* Extracted units of 700 characters and more: two words around a run of
\* blanks or line ends, single words that only a hard cut can split, and
\* units with whitespace at their ends or between more words
Run(c, n) == [c |-> c, n |-> n]

TwoWordUnits ==
  { <<Run("a", m), gap, Run("b", n)>> :
      m \in {100, 650, 699, 700, 701},
      gap \in {Run(" ", 1), Run(" ", 2), Run("\n", 1), Run("\n", 2), Run("\n", 3)},
      n \in {1, 100, 699, 750} }

OneWordUnits == { <<Run("a", m)>> : m \in {700, 701, 1300, 1301, 1500} }

OtherUnits ==
  { <<Run(" ", 1), Run("a", 700)>>,
    <<Run("a", 700), Run("\n", 2)>>,
    <<Run("a", 300), Run(" ", 1), Run("b", 300), Run(" ", 1), Run("a", 300)>>,
    <<Run("a", 50), Run(" ", 1), Run("b", 60), Run(" ", 1), Run("a", 600), Run("\n", 3),
      Run("b", 90)>>,
    <<Run("a", 400), Run("\n", 2), Run("b", 50), Run("\n", 1), Run("a", 50), Run(" ", 1),
      Run("b", 400)>> }

Units == TwoWordUnits \cup OneWordUnits \cup OtherUnits

\* process_file is handed one extracted unit
SplitInit ==
  /\ BaseInit
  /\ split \in {[unit |-> unit, chunks |-> <<>>, done |-> FALSE] : unit \in Units}
  /\ rl_threads = <<>>
  /\ db_threads = <<>>

\* process_file splits the unit
SplitUnit ==
    /\ ~split.done
    /\ split' = [split EXCEPT !.chunks = split_documents(Text(split.unit)), !.done = TRUE]
    /\ UNCHANGED <<store_vars, clock, rate_vars, reply_vars, http_vars, singleton_vars,
                   rl_threads, db_threads>>

SplitNext == SplitUnit

SplitSpec == SplitInit /\ [][SplitNext]_vars

(***************************************************************************)
(* Claims: chunking                                                        *)
(***************************************************************************)
\* Position p of the unit lies in a produced chunk
InSomeChunk(p) ==
  \E i \in DOMAIN split.chunks : split.chunks[i].s <= p /\ p <= split.chunks[i].e

\* C24 as stated: for a unit of length L >= chunk_size every character
\* position of the unit lies in at least one produced chunk.
C24_EveryPositionCovered ==
  LET text == Text(split.unit)
  IN  (split.done /\ Len(text) >= chunk_size) => \A p \in 1..Len(text) : InSomeChunk(p)

\* C24 Chunking coverage: for a unit of length L >= chunk_size (700) split
\* with overlap 100, every position of the unit that holds a character other
\* than whitespace lies in at least one produced chunk, every chunk being a
\* range of the unit's positions; a position in no chunk holds whitespace.
C24_ChunkingCoverage ==
  LET text == Text(split.unit)
  IN  (split.done /\ Len(text) >= chunk_size) =>
        /\ \A p \in 1..Len(text) : ~IsSpace(text[p]) => InSomeChunk(p)
        /\ \A i \in DOMAIN split.chunks :
             /\ 1 <= split.chunks[i].s /\ split.chunks[i].s <= split.chunks[i].e
             /\ split.chunks[i].e <= Len(text)

\* A unit of more than 700 characters was split at a blank, and the blank is
\* in neither chunk
C24_Witness ==
  LET text == Text(split.unit)
  IN  /\ split.done /\ Len(text) > chunk_size
      /\ Len(split.chunks) = 2
      /\ \E p \in 1..Len(text) : IsSpace(text[p]) /\ ~InSomeChunk(p)
      /\ \A p \in 1..Len(text) : ~IsSpace(text[p]) => InSomeChunk(p)

\* A word of 1500 letters was cut into chunks of 700 that overlap by 100
C24_WitnessHardCut ==
  /\ split.done /\ split.unit = <<Run("a", 1500)>>
  /\ Len(split.chunks) = 3
  /\ split.chunks[1] = [s |-> 1, e |-> chunk_size]
  /\ split.chunks[2].s = chunk_size - chunk_overlap + 1
  /\ \A p \in 1..1500 : InSomeChunk(p)

(***************************************************************************)
(* Claims: reads and eviction                                              *)
(***************************************************************************)
ReadClock == {0, 7201}

\* One session uploads, is read (retrieval, statistics, chat turns) and is
\* evicted, around the session timeout
ReadNext ==
  \/ Upload(OneFile, {SessA}, ReadClock)
  \/ Retrieve({<<"g", "o">>}, {SessA}, {DefaultK})
  \/ Stats({SessA})
  \/ GetProviewResponseOf({<<"hi">>}, {SessA}, {InitFails})
  \/ Janitor({None}, ReadClock)

ReadSpec == StoreInit /\ [][ReadNext]_vars

\* The step is a read: a get_retrieved_context or get_session_stats call
\* returns, or a chat turn is answered
ReadStep ==
  \/ last'.op \in {"get_retrieved_context", "get_session_stats"}
  \/ reply_call' # reply_call

\* C25 Eviction depends on ingestion time only: a get_retrieved_context call,
\* a get_session_stats call and a chat turn leave the store as it was (no
\* chunk added, removed or re-stamped), and a janitor run with the default
\* threshold that meets no store failure leaves exactly the chunks whose
\* ingestion time stamp is not before now - SESSION_TIMEOUT_HOURS * 3600,
\* whatever reads came before it.
C25_ReadsDoNotRefresh ==
  /\ [][ReadStep => store' = store]_vars
  /\ []((last.op = "janitor_cleanup" /\ last.fault = "none") =>
          store = {c \in last.before :
                     ~(c.timestamp < last.at - SESSION_TIMEOUT_HOURS * SecondsPerHour)})

\* A janitor run at 7201 evicted the session's chunk ingested at 0 and kept
\* the one ingested at 7201, although a chat turn had read the session when
\* both were stored, that is at 7201, after the timeout of the first had passed
C25_Witness ==
  /\ last.op = "janitor_cleanup" /\ last.fault = "none" /\ last.at = 7201
  /\ \E c \in last.before : c.session_id = SessA /\ c.timestamp = 0 /\ c \notin store
  /\ \E c \in store : c.session_id = SessA /\ c.timestamp = 7201
  /\ reply_call.op = "get_proview_response" /\ reply_call.session = SessA
  /\ reply_call.found = Cardinality(StoreGetWhere(last.before, SessA))
  /\ reply_call.found = 2

(***************************************************************************)
(* The background task of a chat turn                                      *)
(***************************************************************************)
\* The task the exchange that just ended added is still to run
TaskWaiting == http_last.tasks # <<>> /\ ~http_last.tasks[1].ran

\* The background task runs once the response is out: janitor_cleanup with
\* the arguments it was added with, at a later clock reading, whatever the
\* store does
BackgroundTask(CV) ==
  /\ TaskWaiting
  /\ \E t \in {t \in CV : t >= clock}, fault \in {"none", "db", "get", "delete"} :
       LET hours == http_last.tasks[1].hours
           r == janitor_cleanup(store, hours, t, fault)
       IN  /\ r.fault = fault
           /\ store' = r.store
           /\ clock' = t
           /\ prev' = Summary(last, "janitor_cleanup", <<>>, hours)
           /\ last' = [NoCall EXCEPT !.op = "janitor_cleanup", !.hours = hours,
                                     !.fault = r.fault, !.ret = r.ret, !.raised = r.raised,
                                     !.before = store, !.at = t,
                                     !.cutoff = CutoffTime(t, hours)]
           /\ http_last' = [http_last EXCEPT !.tasks[1].ran = TRUE]
           /\ UNCHANGED <<next_id, temp_files, rate_vars, reply_vars, singleton_vars, step_vars>>

\* Uploads, chat turns taken one after the other, and the task of each
TaskNext ==
  \/ Upload(OneFile, {SessA}, {0})
  \/ (~TaskWaiting /\ ChatHandler(RightKey, {<<>>}, {InitFails}, NoFaults))
  \/ BackgroundTask(CoarseClock)

TaskSpec == StoreInit /\ [][TaskNext]_vars

(***************************************************************************)
(* Claims: the janitor trigger of a chat turn                              *)
(***************************************************************************)
\* C26 Janitor trigger per chat turn: a chat request that passed the key
\* check and the rate limit has added exactly one background task, a
\* janitor_cleanup run with no argument (the default threshold); a
\* rate-limited chat request (429) has added none; and when the task runs,
\* with whatever result or store failure, it raises nothing and the reply
\* and the status of the exchange stay as they were.
C26_JanitorPerChatTurn ==
  /\ [](http_last.endpoint = "chat" =>
          /\ http_last.status # 429 =>
               /\ Len(http_last.tasks) = 1
               /\ http_last.tasks[1].func = "janitor_cleanup"
               /\ http_last.tasks[1].hours = None
          /\ http_last.status = 429 => http_last.tasks = <<>>)
  /\ [][(TaskWaiting /\ ~TaskWaiting') =>
          /\ last'.op = "janitor_cleanup" /\ Threshold(last'.hours) = SESSION_TIMEOUT_HOURS
          /\ last'.raised = "none"
          /\ reply_call' = reply_call
          /\ http_last'.status = http_last.status]_vars

\* The task of an answered chat turn ran into a store failure; the reply stands
C26_Witness ==
  /\ http_last.endpoint = "chat" /\ http_last.status = 200
  /\ http_last.tasks # <<>> /\ http_last.tasks[1].ran
  /\ last.op = "janitor_cleanup" /\ last.fault = "delete" /\ last.ret = 0
  /\ reply_call.op = "get_proview_response" /\ reply_call.reply # None

\* A rate-limited chat request: 429 and no task
C26_WitnessRateLimited ==
  /\ http_last.endpoint = "chat" /\ http_last.status = 429
  /\ http_last.tasks = <<>>

(***************************************************************************)
(* check_rate_limit taken step by step by concurrent callers               *)
(***************************************************************************)
\* rl_threads maps every thread to where it is in check_rate_limit (pc) and
\* to its locals. The steps: the call reads the clock; the list
\* comprehension builds the pruned list from the client's list as it is then;
\* the assignment puts it in the store; the length of the client's list as it
\* is then is checked; the time is appended to the client's list as it is
\* then. rate_limit_store is a defaultdict(list): a key never seen reads as
\* the empty list and no lookup raises KeyError.
RlThreads == {"t1", "t2"}
RlClock == {0, 61}
MaxRlCalls == 2

\* A thread outside check_rate_limit, with the number of calls it has made
RlIdle(calls) ==
  [pc |-> "idle", client_ip |-> "", current_time |-> 0, window_start |-> 0, pruned |-> <<>>,
   calls |-> calls]

\* The tracker before the callers meet: nothing recorded, or the first client
\* one request below the limit after nine accepted requests at time 0
RlInit ==
  /\ store = {} /\ clock = 0 /\ next_id = 0 /\ last = NoCall /\ prev = NoPrev
  /\ ReplyInit /\ HttpInit /\ SingletonInit
  /\ split = NoSplit /\ db_threads = <<>>
  /\ rl_threads = [t \in RlThreads |-> RlIdle(0)]
  /\ rate_last = NoRateCall
  /\ \E n \in {0, RATE_LIMIT_REQUESTS - 1} :
       /\ rate_limit_store = [c \in Clients |-> IF c = "10.0.0.1" THEN Rep(0, n) ELSE <<>>]
       /\ rate_hist = [c \in Clients |->
                         [accepted |-> IF c = "10.0.0.1" THEN Rep(0, n) ELSE <<>>,
                          rejected_at |-> 0 - 1]]

\* lines 94-95: current_time = time.time(); window_start = current_time - window
RlCall(t, CS, CV) ==
  \E c \in CS, now \in {now \in CV : now >= clock} :
    /\ rl_threads[t].pc = "idle" /\ rl_threads[t].calls < MaxRlCalls
    /\ rl_threads' = [rl_threads EXCEPT
                        ![t] = [pc |-> "prune", client_ip |-> c, current_time |-> now,
                                window_start |-> now - RATE_LIMIT_WINDOW_SECONDS,
                                pruned |-> <<>>, calls |-> @.calls + 1]]
    /\ clock' = now
    /\ UNCHANGED <<store_vars, rate_vars, reply_vars, http_vars, singleton_vars, split,
                   db_threads>>

\* lines 98-101, right-hand side: the comprehension over the client's list
RlPrune(t) ==
  /\ rl_threads[t].pc = "prune"
  /\ rl_threads' = [rl_threads EXCEPT
                      ![t].pc = "assign",
                      ![t].pruned = CleanOld(rate_limit_store[rl_threads[t].client_ip],
                                             rl_threads[t].window_start)]
  /\ UNCHANGED <<store_vars, clock, rate_vars, reply_vars, http_vars, singleton_vars, split,
                 db_threads>>

\* lines 98-101, the assignment
RlAssign(t) ==
  /\ rl_threads[t].pc = "assign"
  /\ rate_limit_store' = [rate_limit_store EXCEPT
                            ![rl_threads[t].client_ip] = rl_threads[t].pruned]
  /\ rl_threads' = [rl_threads EXCEPT ![t].pc = "check"]
  /\ UNCHANGED <<store_vars, clock, rate_last, rate_hist, reply_vars, http_vars,
                 singleton_vars, split, db_threads>>

\* Mutant: a refused request is recorded too
RlCheck_recording(t) ==
  /\ rl_threads[t].pc = "check"
  /\ LET c == rl_threads[t].client_ip
     IN  IF Len(rate_limit_store[c]) >= RATE_LIMIT_REQUESTS
           THEN /\ rl_threads' = [rl_threads EXCEPT ![t] = RlIdle(@.calls)]
                /\ rate_limit_store' = [rate_limit_store EXCEPT
                                          ![c] = Append(@, rl_threads[t].current_time)]
                /\ rate_hist' = [rate_hist EXCEPT
                                   ![c].rejected_at = rl_threads[t].current_time]
           ELSE /\ rl_threads' = [rl_threads EXCEPT ![t].pc = "append"]
                /\ UNCHANGED <<rate_limit_store, rate_hist>>
  /\ UNCHANGED <<store_vars, clock, rate_last, reply_vars, http_vars, singleton_vars, split,
                 db_threads>>

\* lines 104-106: the length check; a refused call returns False
RlCheck(t) ==
  /\ rl_threads[t].pc = "check"
  /\ LET c == rl_threads[t].client_ip
     IN  IF Len(rate_limit_store[c]) >= RATE_LIMIT_REQUESTS
           THEN /\ rl_threads' = [rl_threads EXCEPT ![t] = RlIdle(@.calls)]
                /\ rate_hist' = [rate_hist EXCEPT
                                   ![c].rejected_at = rl_threads[t].current_time]
           ELSE /\ rl_threads' = [rl_threads EXCEPT ![t].pc = "append"]
                /\ UNCHANGED rate_hist
  /\ UNCHANGED <<store_vars, clock, rate_limit_store, rate_last, reply_vars, http_vars,
                 singleton_vars, split, db_threads>>

\* lines 109-110: the append; the call returns True
RlAppend(t) ==
  /\ rl_threads[t].pc = "append"
  /\ LET c == rl_threads[t].client_ip
     IN  /\ rate_limit_store' = [rate_limit_store EXCEPT
                                   ![c] = Append(@, rl_threads[t].current_time)]
         /\ rate_hist' = [rate_hist EXCEPT
                            ![c].accepted = Append(@, rl_threads[t].current_time)]
  /\ rl_threads' = [rl_threads EXCEPT ![t] = RlIdle(@.calls)]
  /\ UNCHANGED <<store_vars, clock, rate_last, reply_vars, http_vars, singleton_vars, split,
                 db_threads>>

\* Two callers inside check_rate_limit at once, for one client or for two
RlNext ==
  \E t \in RlThreads :
    \/ RlCall(t, Clients, RlClock)
    \/ RlPrune(t)
    \/ RlAssign(t)
    \/ RlCheck(t)
    \/ RlAppend(t)

RlSpec == RlInit /\ [][RlNext]_vars

(***************************************************************************)
(* Claims: the rate tracker under concurrency                              *)
(***************************************************************************)
\* How often v occurs in the sequence
Occurrences(seq, v) == Cardinality({i \in DOMAIN seq : seq[i] = v})

\* C27 Rate tracker under concurrency: in every state of every interleaving
\* of check_rate_limit calls taken step by step, every caller is at one of
\* the function's steps (none has raised), and every client's list holds only
\* timestamps of accepted requests of that client, each no more often than
\* it was accepted. (Accepted requests may be missing from the list, so more
\* than the limit can be admitted.)
C27_TrackerWellFormed ==
  /\ \A t \in RlThreads : rl_threads[t].pc \in {"idle", "prune", "assign", "check", "append"}
  /\ \A c \in Clients :
       \A i \in DOMAIN rate_limit_store[c] :
         LET v == rate_limit_store[c][i]
         IN  /\ Occurrences(rate_hist[c].accepted, v) >= 1
             /\ Occurrences(rate_limit_store[c], v) <= Occurrences(rate_hist[c].accepted, v)

\* Under-counting: an accepted request is missing from the client's list
\* although its time is inside every window so far
C27_Witness ==
  /\ \A t \in RlThreads : rl_threads[t].pc = "idle"
  /\ clock = 0
  /\ Len(rate_hist["10.0.0.1"].accepted) > Len(rate_limit_store["10.0.0.1"])
  /\ rate_limit_store["10.0.0.2"] # <<>>

\* More requests of one client admitted in one window than the limit
C27_WitnessOverLimit ==
  \E c \in Clients : Occurrences(rate_hist[c].accepted, 0) > RATE_LIMIT_REQUESTS

(***************************************************************************)
(* Store calls taken step by step by concurrent threads                    *)
(***************************************************************************)
\* db_threads maps every thread to the call it runs (op), to where it is in
\* it (pc) and to its locals. clear_session_data reads the ids of a session,
\* then deletes them; janitor_cleanup fixes its cutoff, reads the whole
\* collection, then deletes the expired ids; process_file reads the clock for
\* the time stamp, then adds its chunks. Each thread runs one call. The
\* handlers run on the event loop and the janitor tasks in pool threads, so
\* the calls do overlap. delete(ids) ignores an id that is no longer stored.
DbThreads == {"t1", "t2", "t3"}
DbClock == {0, 3600, 7201}
DbHours == {None, Some(1)}

DbIdle ==
  [op |-> "none", pc |-> "idle", session |-> <<>>, hours |-> None, started |-> 0,
   cutoff_time |-> 0, seen |-> {}, ids_to_delete |-> {}, present |-> {}, ret |-> 0,
   removed |-> {}, timestamp |-> 0, n_splits |-> 0]

DbInit ==
  /\ BaseInit
  /\ split = NoSplit
  /\ rl_threads = <<>>
  /\ db_threads = [t \in DbThreads |-> DbIdle]

\* clear_session_data, lines 217-228: the session's ids are read
ClearRead(t, SS) ==
  \E s \in SS :
    LET ids == {c.id : c \in StoreGetWhere(store, s)}
    IN  /\ db_threads[t].pc = "idle"
        /\ db_threads' = [db_threads EXCEPT
                            ![t] = [DbIdle EXCEPT
                                      !.op = "clear_session_data", !.session = s,
                                      !.pc = IF Blank(s) \/ ids = {} THEN "done" ELSE "delete",
                                      !.ids_to_delete = IF Blank(s) THEN {} ELSE ids]]
        /\ UNCHANGED <<store_vars, clock, rate_vars, reply_vars, http_vars, singleton_vars,
                       split, rl_threads>>

\* janitor_cleanup, lines 254-255: the clock is read and the cutoff fixed
JanitorStart(t, HS, CV) ==
  \E hours \in HS, now \in {now \in CV : now >= clock} :
    /\ db_threads[t].pc = "idle"
    /\ db_threads' = [db_threads EXCEPT
                        ![t] = [DbIdle EXCEPT
                                  !.op = "janitor_cleanup", !.hours = hours,
                                  !.pc = "snapshot", !.started = now,
                                  !.cutoff_time = CutoffTime(now, hours)]]
    /\ clock' = now
    /\ UNCHANGED <<store_vars, rate_vars, reply_vars, http_vars, singleton_vars, split,
                   rl_threads>>

\* A janitor that keeps every id it read, expired or not
JanitorSnapshot_unfiltered(t) ==
  LET ids == {c.id : c \in store}
  IN  /\ db_threads[t].pc = "snapshot"
      /\ db_threads' = [db_threads EXCEPT
                          ![t].seen = {c.id : c \in store},
                          ![t].ids_to_delete = ids,
                          ![t].pc = IF ids = {} THEN "done" ELSE "delete"]
      /\ UNCHANGED <<store_vars, clock, rate_vars, reply_vars, http_vars, singleton_vars,
                     split, rl_threads>>

\* janitor_cleanup, lines 260-271: the collection is read, the expired ids kept
JanitorSnapshot(t) ==
  LET ids == {c.id : c \in {c \in store : Expired(c.timestamp, db_threads[t].cutoff_time)}}
  IN  /\ db_threads[t].pc = "snapshot"
      /\ db_threads' = [db_threads EXCEPT
                          ![t].seen = {c.id : c \in store},
                          ![t].ids_to_delete = ids,
                          ![t].pc = IF ids = {} THEN "done" ELSE "delete"]
      /\ UNCHANGED <<store_vars, clock, rate_vars, reply_vars, http_vars, singleton_vars,
                     split, rl_threads>>

\* vector_db.delete(ids=ids_to_delete); return len(ids_to_delete) (lines
\* 229-231 and 275-277)
DeleteIds(t) ==
  /\ db_threads[t].pc = "delete"
  /\ store' = StoreDelete(store, db_threads[t].ids_to_delete)
  /\ db_threads' = [db_threads EXCEPT
                      ![t].present = {c.id : c \in store},
                      ![t].removed = {c \in store : c.id \in db_threads[t].ids_to_delete},
                      ![t].ret = Cardinality(db_threads[t].ids_to_delete),
                      ![t].pc = "done"]
  /\ UNCHANGED <<clock, next_id, last, prev, rate_vars, reply_vars, http_vars,
                 singleton_vars, split, rl_threads>>

\* process_file, line 120: current_time = time.time()
IngestStamp(t, SS, CV) ==
  \E s \in SS, now \in {now \in CV : now >= clock}, n \in 1..MaxIds :
    /\ db_threads[t].pc = "idle"
    /\ db_threads' = [db_threads EXCEPT
                        ![t] = [DbIdle EXCEPT
                                  !.op = "process_file", !.session = s, !.pc = "add",
                                  !.timestamp = now, !.n_splits = n]]
    /\ clock' = now
    /\ UNCHANGED <<store_vars, rate_vars, reply_vars, http_vars, singleton_vars, split,
                   rl_threads>>

\* process_file, lines 139-143: vector_db.add_documents(splits)
IngestAdd(t, FS) ==
  \E f \in FS :
    /\ db_threads[t].pc = "add"
    /\ next_id + db_threads[t].n_splits <= MaxIds
    /\ store' = store \cup NewChunks(f, db_threads[t].session, db_threads[t].timestamp,
                                     db_threads[t].n_splits, next_id)
    /\ next_id' = next_id + db_threads[t].n_splits
    /\ db_threads' = [db_threads EXCEPT ![t].ret = db_threads[t].n_splits, ![t].pc = "done"]
    /\ UNCHANGED <<clock, last, prev, rate_vars, reply_vars, http_vars, singleton_vars,
                   split, rl_threads>>

\* Three threads, each running one of the calls
DbNext ==
  \E t \in DbThreads :
    \/ ClearRead(t, {SessA})
    \/ JanitorStart(t, DbHours, DbClock)
    \/ JanitorSnapshot(t)
    \/ DeleteIds(t)
    \/ IngestStamp(t, {SessA}, DbClock)
    \/ IngestAdd(t, OneFile)

DbSpec == DbInit /\ [][DbNext]_vars

(***************************************************************************)
(* Claims: deletion counts under interleaving                              *)
(***************************************************************************)
\* The deletion runs that have returned
Deleted(t) ==
  db_threads[t].op \in {"clear_session_data", "janitor_cleanup"} /\ db_threads[t].pc = "done"

\* C28 Deletion counts are exact under interleaving: the count every
\* clear_session_data and janitor_cleanup run returns is the number of chunks
\* its delete removed from the store, so the counts sum to the number of
\* chunks removed, and no chunk is counted by two runs.
C28_CountsExact ==
  /\ \A t \in DbThreads : Deleted(t) => db_threads[t].ret = Cardinality(db_threads[t].removed)
  /\ \A t, u \in DbThreads :
       (t # u /\ Deleted(t) /\ Deleted(u)) =>
         db_threads[t].ids_to_delete \cap db_threads[u].ids_to_delete = {}

\* What holds: no run removes more than it counts, and no chunk is removed twice
C28_NeverUndercounted ==
  /\ \A t \in DbThreads : Deleted(t) => Cardinality(db_threads[t].removed) <= db_threads[t].ret
  /\ \A t, u \in DbThreads : t # u => db_threads[t].removed \cap db_threads[u].removed = {}

\* A clear and a janitor run both returned 1 for the one chunk that was stored
C28_CountedTwice ==
  \E t, u \in DbThreads :
    /\ db_threads[t].op = "clear_session_data" /\ db_threads[t].pc = "done"
    /\ db_threads[u].op = "janitor_cleanup" /\ db_threads[u].pc = "done"
    /\ db_threads[t].ret = 1 /\ db_threads[u].ret = 1
    /\ db_threads[t].ids_to_delete = db_threads[u].ids_to_delete
    /\ Cardinality(db_threads[t].removed \cup db_threads[u].removed) = 1

(***************************************************************************)
(* Claims: what a check_rate_limit call leaves alone                       *)
(***************************************************************************)
FrameClock == {0, 61}

\* The tracker after each client has had none or nine requests accepted at
\* time 0
FrameInit ==
  /\ store = {} /\ clock = 0 /\ next_id = 0 /\ last = NoCall /\ prev = NoPrev
  /\ ReplyInit /\ HttpInit /\ SingletonInit /\ StepInit
  /\ rate_last = NoRateCall
  /\ \E n \in [Clients -> {0, RATE_LIMIT_REQUESTS - 1}] :
       /\ rate_limit_store = [c \in Clients |-> Rep(0, n[c])]
       /\ rate_hist = [c \in Clients |-> [accepted |-> Rep(0, n[c]), rejected_at |-> 0 - 1]]

\* Sequential calls of check_rate_limit for two clients
FrameNext == CheckRateLimit(Clients, FrameClock)

FrameSpec == FrameInit /\ [][FrameNext]_vars

\* The entries of a list that are newer than the start of the window at now
StillInWindow(times, now) ==
  LET Newer(req_time) == req_time > now - RATE_LIMIT_WINDOW_SECONDS
  IN  SelectSeq(times, Newer)

\* C29 Rate-limit frame: a rejected check_rate_limit call records nothing for
\* its client, whose list changes only by losing the entries older than the
\* window; a call for one client never changes the entries of another client;
\* and in every state reached by sequential calls each client's list holds at
\* most RATE_LIMIT_REQUESTS time stamps.
C29_RateLimitFrame ==
  /\ [](\A c \in Clients : Len(rate_limit_store[c]) <= RATE_LIMIT_REQUESTS)
  /\ [][/\ \A y \in Clients \ {rate_last'.client} :
              rate_limit_store'[y] = rate_limit_store[y]
        /\ ~rate_last'.ret =>
             rate_limit_store'[rate_last'.client] =
               StillInWindow(rate_limit_store[rate_last'.client], rate_last'.at)]_vars

\* C29 witness: a call of one client was rejected with its list full while
\* the other client has entries recorded, some of them older than the window.
C29_Witness ==
  /\ rate_last.client # ""
  /\ ~rate_last.ret
  /\ Len(rate_limit_store[rate_last.client]) = RATE_LIMIT_REQUESTS
  /\ \E y \in Clients \ {rate_last.client} :
       /\ rate_limit_store[y] # <<>>
       /\ StillInWindow(rate_limit_store[y], rate_last.at) # rate_limit_store[y]

\* C29 witness of the pruning: an accepted call dropped the client's entries
\* that had left the window
C29_WitnessPruned ==
  /\ rate_last.client # ""
  /\ rate_last.ret
  /\ Len(rate_limit_store[rate_last.client]) < Len(rate_last.before)

(***************************************************************************)
(* Claims: the janitor and chunks ingested while it runs                   *)
(***************************************************************************)
\* The janitor runs that have returned
JanitorDone(t) == db_threads[t].op = "janitor_cleanup" /\ db_threads[t].pc = "done"

\* C30 Fresh chunks survive a concurrent janitor: whatever the interleaving
\* of process_file with a janitor_cleanup(hours) run, hours > 0, the run
\* removes no chunk whose time stamp is not earlier than the cutoff it fixed,
\* so none stamped at or after the time the run started; and its delete
\* removes nothing that was added after its read of the collection.
C30_FreshChunksSurvive ==
  \A t \in DbThreads :
    JanitorDone(t) =>
      /\ db_threads[t].cutoff_time < db_threads[t].started
      /\ \A c \in db_threads[t].removed :
           /\ c.timestamp < db_threads[t].cutoff_time
           /\ c.timestamp < db_threads[t].started
           /\ c.id \in db_threads[t].seen

\* C30 witness: a janitor run removed an expired chunk while a chunk stamped
\* after the run started, and stored before the run read the collection, is
\* still stored.
C30_Witness ==
  \E t \in DbThreads :
    /\ JanitorDone(t)
    /\ db_threads[t].removed # {}
    /\ \E c \in store :
         /\ c.id \in db_threads[t].seen
         /\ c.timestamp >= db_threads[t].started

\* C30 witness: a chunk added between the run's read and its delete is still
\* stored after the delete removed an expired chunk.
C30_WitnessAddedBeforeDelete ==
  \E t \in DbThreads :
    /\ JanitorDone(t)
    /\ db_threads[t].removed # {}
    /\ \E c \in store : c.id \in db_threads[t].present \ db_threads[t].seen
====
